---------------------------- MODULE Spec2Model ----------------------------
(***************************************************************************)
(* Model of extract_properties.py: the folio-list parser, the property     *)
(* segmenter, the deed extractor, the registry-office extractor and the    *)
(* correlator (process_properties).                                        *)
(*                                                                         *)
(* Texts are TLA+ strings.  The program's regular expressions are kept as  *)
(* syntax trees (sequences of nodes) and are run by a backtracking matcher *)
(* that follows Python's re module: leftmost match, greedy and lazy        *)
(* repetition, alternatives in order, capture groups, lookahead.           *)
(***************************************************************************)
EXTENDS Naturals, Integers, Sequences, FiniteSets, TLC

(***************************************************************************)
(* Characters and strings                                                  *)
(***************************************************************************)
Ch(s, i) == SubSeq(s, i, i)

LowerChars == "abcdefghijklmnopqrstuvwxyzáéíóúñ"
UpperChars == "ABCDEFGHIJKLMNOPQRSTUVWXYZÁÉÍÓÚÑ"
DigitChars == "0123456789"

CharsOf(s) == {Ch(s, i) : i \in 1..Len(s)}

Lowers == CharsOf(LowerChars)
Uppers == CharsOf(UpperChars)
Digit == CharsOf(DigitChars)
AZ == CharsOf("ABCDEFGHIJKLMNOPQRSTUVWXYZ")
\* \s of a Python str pattern
Space == {" ", "\t", "\n", "\r", "\f"}
\* \w of a Python str pattern
Word == Lowers \cup Uppers \cup Digit \cup {"_"}

UpMap == [c \in Lowers |-> Ch(UpperChars, CHOOSE i \in 1..Len(LowerChars) : Ch(LowerChars, i) = c)]
LowMap == [c \in Uppers |-> Ch(LowerChars, CHOOSE i \in 1..Len(UpperChars) : Ch(UpperChars, i) = c)]

Up(c) == IF c \in Lowers THEN UpMap[c] ELSE c
Low(c) == IF c \in Uppers THEN LowMap[c] ELSE c

\* str.upper(): the halves are folded separately to keep the evaluation shallow
RECURSIVE UpperStr(_)
UpperStr(s) ==
  IF Len(s) = 0 THEN ""
  ELSE IF Len(s) = 1 THEN Up(s)
  ELSE UpperStr(SubSeq(s, 1, Len(s) \div 2)) \o UpperStr(SubSeq(s, Len(s) \div 2 + 1, Len(s)))

\* the first position from pos on whose character is not in cs (Len(s) + 1 if none)
FirstNotIn(s, pos, cs) ==
  CHOOSE i \in pos..(Len(s) + 1) :
    /\ i = Len(s) + 1 \/ Ch(s, i) \notin cs
    /\ \A k \in pos..(i - 1) : Ch(s, k) \in cs

\* the last position whose character is not in cs (0 if none)
LastNotIn(s, cs) ==
  CHOOSE i \in 0..Len(s) :
    /\ i = 0 \/ Ch(s, i) \notin cs
    /\ \A k \in (i + 1)..Len(s) : Ch(s, k) \in cs

\* str.strip(), str.lstrip(), str.rstrip() with no argument
LStrip(s) == SubSeq(s, FirstNotIn(s, 1, Space), Len(s))
RStrip(s) == SubSeq(s, 1, LastNotIn(s, Space))
Strip(s) == LStrip(RStrip(s))

\* str.lstrip('0123456789')
LStripDigits(s) == SubSeq(s, FirstNotIn(s, 1, Digit), Len(s))

\* str.split('\n'): the pieces between the line breaks, empty pieces kept
SplitLines(s) ==
  LET breaks == {i \in 1..Len(s) : Ch(s, i) = "\n"}
      m == Cardinality(breaks)
      at(k) == IF k = 0 THEN 0
               ELSE IF k = m + 1 THEN Len(s) + 1
               ELSE CHOOSE i \in breaks : Cardinality({b \in breaks : b < i}) = k - 1
  IN [k \in 1..(m + 1) |-> SubSeq(s, at(k - 1) + 1, at(k) - 1)]

\* str.split(): the words between runs of white space
RECURSIVE SplitWords(_)
SplitWords(s) ==
  LET t == LStrip(s)
      n == FirstNotIn(t, 1, CharsOf(t) \ Space) - 1
  IN IF t = "" THEN <<>> ELSE <<SubSeq(t, 1, n)>> \o SplitWords(SubSeq(t, n + 1, Len(t)))

\* ' '.join(parts)
RECURSIVE JoinSpace(_)
JoinSpace(parts) ==
  IF parts = <<>> THEN ""
  ELSE IF Len(parts) = 1 THEN parts[1]
  ELSE parts[1] \o " " \o JoinSpace(Tail(parts))

\* '\n'.join(parts)
RECURSIVE JoinLines(_)
JoinLines(parts) ==
  IF parts = <<>> THEN ""
  ELSE IF Len(parts) = 1 THEN parts[1]
  ELSE parts[1] \o "\n" \o JoinLines(Tail(parts))

\* str.zfill(width)
RECURSIVE ZFill(_, _)
ZFill(s, width) == IF Len(s) >= width THEN s ELSE ZFill("0" \o s, width)

\* sub in s
Contains(s, sub) == \E i \in 1..(Len(s) - Len(sub) + 1) : SubSeq(s, i, i + Len(sub) - 1) = sub


(***************************************************************************)
(* Regular expressions (Python's re).  A pattern is a sequence of nodes.   *)
(***************************************************************************)
Lit(x) == [t |-> "lit", s |-> x]
In(cs) == [t |-> "set", cs |-> cs, neg |-> FALSE]
NotIn(cs) == [t |-> "set", cs |-> cs, neg |-> TRUE]
\* max = -1: no upper limit
Rep(r, min, max) == [t |-> "rep", r |-> r, min |-> min, max |-> max, lazy |-> FALSE]
LazyRep(r, min, max) == [t |-> "rep", r |-> r, min |-> min, max |-> max, lazy |-> TRUE]
Star(r) == Rep(r, 0, -1)
Plus(r) == Rep(r, 1, -1)
Opt(r) == Rep(r, 0, 1)
Grp(k, r) == [t |-> "grp", k |-> k, r |-> r]
Alt(rs) == [t |-> "alt", rs |-> rs]
Look(r) == [t |-> "look", r |-> r]
Bos == [t |-> "bos"]
Eos == [t |-> "eos"]
Wb == [t |-> "wb"]
\* .
Dot == NotIn({"\n"})
\* \s* \s+ \d+ \d* \w+
S0 == Star(<<In(Space)>>)
S1 == Plus(<<In(Space)>>)
D1 == Plus(<<In(Digit)>>)
D0 == Star(<<In(Digit)>>)
W1 == Plus(<<In(Word)>>)

NoCaps == <<<<0, 0>>, <<0, 0>>, <<0, 0>>>>
Fail == [ok |-> FALSE, b |-> 0, e |-> 0, c |-> NoCaps]

\* the subject of a match: the string and the flags IGNORECASE and MULTILINE
Subject(s, ic, ml) == [s |-> s, ic |-> ic, ml |-> ml]

\* the text x is in the subject at pos, whatever the case of the letters under IGNORECASE
SameAt(X, pos, x) ==
  /\ pos + Len(x) - 1 <= Len(X.s)
  /\ IF X.ic THEN \A k \in 1..Len(x) : Up(Ch(X.s, pos + k - 1)) = Up(Ch(x, k))
     ELSE SubSeq(X.s, pos, pos + Len(x) - 1) = x

InSet(c, n, ic) ==
  LET hit == c \in n.cs \/ (ic /\ (Up(c) \in n.cs \/ Low(c) \in n.cs))
  IN IF n.neg THEN ~hit ELSE hit

\* how many characters from pos on are in the class n, at most max of them
RunLen(X, pos, n, max) ==
  LET last == IF max = -1 \/ pos + max > Len(X.s) + 1 THEN Len(X.s) + 1 ELSE pos + max
  IN (CHOOSE i \in pos..last :
        /\ i = last \/ ~InSet(Ch(X.s, i), n, X.ic)
        /\ \A k \in pos..(i - 1) : InSet(Ch(X.s, k), n, X.ic)) - pos

IsWordAt(X, pos) == pos >= 1 /\ pos <= Len(X.s) /\ Ch(X.s, pos) \in Word

\* the match r if it is one, the other way otherwise
OrElse(r, other) == IF r.ok THEN r ELSE other

RECURSIVE M(_, _, _, _)
RECURSIVE RepSet(_, _, _, _, _, _)
RECURSIVE TryDown(_, _, _, _, _, _)
RECURSIVE TryUp(_, _, _, _, _, _)
RECURSIVE TryAlts(_, _, _, _, _)

\* the first way, in Python's order of preference, to match the nodes ns at pos
M(ns, pos, caps, X) ==
  IF Len(ns) = 0 THEN [ok |-> TRUE, b |-> 0, e |-> pos, c |-> caps]
  ELSE
    LET n == ns[1]
        rest == Tail(ns)
        len == Len(X.s)
    IN CASE n.t = "lit" ->
              IF SameAt(X, pos, n.s)
              THEN M(rest, pos + Len(n.s), caps, X)
              ELSE Fail
         [] n.t = "set" ->
              IF pos <= len /\ InSet(Ch(X.s, pos), n, X.ic)
              THEN M(rest, pos + 1, caps, X)
              ELSE Fail
         [] n.t = "rep" ->
              IF Len(n.r) = 1 /\ n.r[1].t = "set"
              THEN RepSet(n, rest, pos, RunLen(X, pos, n.r[1], n.max), caps, X)
              ELSE M(<<[t |-> "loop", r |-> n.r, min |-> n.min, max |-> n.max,
                        lazy |-> n.lazy, n |-> 0, last |-> 0]>> \o rest, pos, caps, X)
         [] n.t = "loop" ->
              LET more == IF (n.max = -1 \/ n.n < n.max) /\ ~(n.n > 0 /\ pos = n.last)
                          THEN M(n.r \o <<[n EXCEPT !.n = @ + 1, !.last = pos]>> \o rest,
                                 pos, caps, X)
                          ELSE Fail
                  done == IF n.n >= n.min THEN M(rest, pos, caps, X) ELSE Fail
              IN IF n.lazy THEN OrElse(done, more) ELSE OrElse(more, done)
         [] n.t = "grp" ->
              M(n.r \o <<[t |-> "endg", k |-> n.k, from |-> pos]>> \o rest, pos, caps, X)
         [] n.t = "endg" ->
              M(rest, pos, [caps EXCEPT ![n.k] = <<n.from, pos>>], X)
         [] n.t = "alt" -> TryAlts(n.rs, rest, pos, caps, X)
         [] n.t = "look" ->
              IF M(n.r, pos, caps, X).ok THEN M(rest, pos, caps, X) ELSE Fail
         [] n.t = "bos" ->
              IF pos = 1 \/ (X.ml /\ Ch(X.s, pos - 1) = "\n")
              THEN M(rest, pos, caps, X)
              ELSE Fail
         [] n.t = "eos" ->
              IF pos = len + 1 \/ (pos = len /\ Ch(X.s, len) = "\n")
                 \/ (X.ml /\ pos <= len /\ Ch(X.s, pos) = "\n")
              THEN M(rest, pos, caps, X)
              ELSE Fail
         [] n.t = "wb" ->
              IF IsWordAt(X, pos - 1) # IsWordAt(X, pos)
              THEN M(rest, pos, caps, X)
              ELSE Fail

\* repetition of one character class of which k characters follow pos
RepSet(n, rest, pos, k, caps, X) ==
  IF k < n.min THEN Fail
  ELSE IF n.lazy THEN TryUp(rest, pos, n.min, k, caps, X)
  ELSE TryDown(rest, pos, n.min, k, caps, X)

\* greedy repetition of one character class: the run lengths lo..hi, the longest
\* first (the upper half of the range is tried before the lower half)
TryDown(rest, pos, lo, hi, caps, X) ==
  IF lo > hi THEN Fail
  ELSE IF lo = hi THEN M(rest, pos + lo, caps, X)
  ELSE OrElse(TryDown(rest, pos, (lo + hi + 1) \div 2, hi, caps, X),
              TryDown(rest, pos, lo, ((lo + hi + 1) \div 2) - 1, caps, X))

\* lazy repetition of one character class: the run lengths lo..hi, the shortest first
TryUp(rest, pos, lo, hi, caps, X) ==
  IF lo > hi THEN Fail
  ELSE IF lo = hi THEN M(rest, pos + lo, caps, X)
  ELSE OrElse(TryUp(rest, pos, lo, (lo + hi) \div 2, caps, X),
              TryUp(rest, pos, ((lo + hi) \div 2) + 1, hi, caps, X))

TryAlts(rs, rest, pos, caps, X) ==
  IF Len(rs) = 0 THEN Fail
  ELSE OrElse(M(rs[1] \o rest, pos, caps, X), TryAlts(Tail(rs), rest, pos, caps, X))

\* the match r with its start position
StartingAt(r, lo) == IF r.ok THEN [r EXCEPT !.b = lo] ELSE Fail

\* the match at the leftmost start position in lo..hi; the left half is tried first
RECURSIVE FindIn(_, _, _, _)
FindIn(re, X, lo, hi) ==
  IF lo > hi THEN Fail
  ELSE IF lo = hi THEN StartingAt(M(re, lo, NoCaps, X), lo)
  ELSE OrElse(FindIn(re, X, lo, (lo + hi) \div 2), FindIn(re, X, ((lo + hi) \div 2) + 1, hi))

\* a text every match of re holds: the first literal of the sequence, "" if it has none
required_literal(re) ==
  IF \E k \in 1..Len(re) : re[k].t = "lit"
  THEN re[CHOOSE k \in 1..Len(re) : re[k].t = "lit" /\ \A k2 \in 1..(k - 1) : re[k2].t # "lit"].s
  ELSE ""

\* the text x is somewhere in the subject
Holds(X, x) == \E p \in 1..(Len(X.s) - Len(x) + 1) : SameAt(X, p, x)

\* the leftmost match from p on; no position is tried when the required literal is absent
FindFrom(re, X, p) ==
  IF Holds(X, required_literal(re)) THEN FindIn(re, X, p, Len(X.s) + 1) ELSE Fail

\* re.search(re, s, flags): the leftmost match; b..e-1 is the matched text
Search(re, s, ic) == FindFrom(re, Subject(s, ic, FALSE), 1)
SearchML(re, s, ic) == FindFrom(re, Subject(s, ic, TRUE), 1)
\* re.match(re, s)
MatchAt1(re, s, ic) == M(re, 1, NoCaps, Subject(s, ic, FALSE))
\* match.group(k), match.start(k), match.end(k)
Group(s, m, k) == SubSeq(s, m.c[k][1], m.c[k][2] - 1)
GroupEnd(m, k) == m.c[k][2]

\* re.findall / re.finditer: the matches from left to right, none overlapping
RECURSIVE FindAllFrom(_, _, _)
RECURSIVE MatchesFrom(_, _, _)
FindAllFrom(re, X, p) == MatchesFrom(re, X, FindFrom(re, X, p))

\* the match r and the matches after it
MatchesFrom(re, X, r) ==
  IF ~r.ok THEN <<>>
  ELSE <<r>> \o FindAllFrom(re, X, IF r.e > r.b THEN r.e ELSE r.e + 1)

FindAll(re, s, ic) == FindAllFrom(re, Subject(s, ic, FALSE), 1)

\* the text before each match replaced by itself and each match by repl, then the rest
RECURSIVE Replaced(_, _, _, _)
Replaced(s, matches, repl, from) ==
  IF Len(matches) = 0 THEN SubSeq(s, from, Len(s))
  ELSE SubSeq(s, from, matches[1].b - 1) \o repl
       \o Replaced(s, Tail(matches), repl, matches[1].e)

\* re.sub(re, repl, s, flags)
Sub(re, repl, s, ic) == Replaced(s, FindAll(re, s, ic), repl, 1)

\* s[a:b] and s[a:] with Python's 0-based offsets
Slice(s, a, b) == SubSeq(s, a + 1, b)
SliceFrom(s, a) == SubSeq(s, a + 1, Len(s))

\* some pattern of the list is found in s
AnySearch(patterns, s, ic) ==
  LET X == Subject(s, ic, FALSE)
  IN \E k \in 1..Len(patterns) : FindFrom(patterns[k], X, 1).ok

(***************************************************************************)
(* extract_properties_from_pdf: the patterns                               *)
(***************************************************************************)
\* a variant of the pattern whose separator class has no period
pattern_folio_no_period ==
  <<Grp(1, <<D1>>), S0, Lit("->"), S0, Grp(2, <<D1>>), S0,
    Plus(<<In(Space \cup {":", "-"})>>), S0, Grp(3, <<Star(<<Dot>>)>>)>>

\* (\d+)\s*->\s*(\d+)\s*[\.:\s-]+\s*(.*)
pattern_folio_normal ==
  <<Grp(1, <<D1>>), S0, Lit("->"), S0, Grp(2, <<D1>>), S0,
    Plus(<<In(Space \cup {".", ":", "-"})>>), S0, Grp(3, <<Star(<<Dot>>)>>)>>

\* (\d+)\s*->\s*(\d+)
base_pattern == <<Grp(1, <<D1>>), S0, Lit("->"), S0, Grp(2, <<D1>>)>>

\* ^\s*[:-]\s*
separator_pattern == <<Bos, S0, In({":", "-"}), S0>>

property_keywords ==
  <<<<Bos, Lit("APTO"), Opt(<<Lit(".")>>), S0>>,
    <<Bos, Lit("APARTAMENTO"), S1>>,
    <<Bos, Lit("TORRE"), S1>>,
    <<Bos, Lit("LOCAL"), S1>>,
    <<Bos, Lit("DEPOSITO"), S1>>,
    <<Bos, Lit("PARQUEADERO"), S1>>,
    <<Bos, Lit("ETAPA"), S1>>,
    <<Bos, Lit("PISO"), S1>>,
    <<Bos, Lit("BODEGA"), S1>>,
    <<Bos, Lit("OFICINA"), S1>>,
    <<Bos, Lit("LOTE"), S1>>,
    <<Bos, Lit("MANZANA"), S1>>,
    <<Bos, Lit("CESION"), S1>>,
    <<Bos, Lit("CESIÓN"), S1>>>>

\* (\d+)\s*->\s*(\d+)(?={keyword_pattern})
folio_keyword_pattern(keyword_pattern) ==
  <<Grp(1, <<D1>>), S0, Lit("->"), S0, Grp(2, <<D1>>), Look(keyword_pattern)>>

\* (\d+)\s*->\s*(\d+)([A-Z][A-Z0-9\s\-\.]*)
transition_pattern ==
  <<Grp(1, <<D1>>), S0, Lit("->"), S0, Grp(2, <<D1>>),
    Grp(3, <<In(AZ), Star(<<In(AZ \cup Digit \cup Space \cup {"-", "."})>>)>>)>>

\* (\d+)\s*->\s*(\d+)(\d*\s*[A-Z][A-Z0-9\s\-]*)
number_letter_pattern ==
  <<Grp(1, <<D1>>), S0, Lit("->"), S0, Grp(2, <<D1>>),
    Grp(3, <<D0, S0, In(AZ), Star(<<In(AZ \cup Digit \cup Space \cup {"-"})>>)>>)>>

footer_patterns ==
  <<<<Lit("La validez de este documento")>>,
    <<Lit("certificados.supernotariado.gov.co")>>,
    <<Lit("SNR")>>,
    <<Lit("SUPERINTENDENCIA")>>,
    <<Lit("OFICINA DE REGISTRO")>>,
    <<Lit("CERTIFICADO DE TRADICION")>>,
    <<Lit("MATRICULA INMOBILIARIA")>>,
    <<Lit("Pagina "), D1>>,
    <<Lit("TURNO:")>>,
    <<Lit("Impreso el")>>,
    <<Lit("No tiene validez sin la firma")>>,
    <<Lit("ESTE CERTIFICADO REFLEJA")>>,
    <<Lit("HASTA LA FECHA Y HORA")>>,
    <<Lit("Certificado generado con el Pin No:")>>,
    <<Lit("Nro Matrícula:")>>,
    <<Lit("SALVEDADES:")>>,
    <<Lit("Información Anterior o Corregida")>>,
    <<Lit("Anotación")>>,
    <<Lit("Anotacion")>>,
    <<Lit("Nro corrección")>>,
    <<Lit("Radicación:")>>,
    <<Lit("Radicacion:")>>,
    <<Lit("CORREGIDO EN CABIDA")>>,
    <<Lit("CORREGIDO EN LINDEROS")>>,
    <<Lit("NUMERO DE DOCUMENTO")>>,
    <<Lit("VALE.")>>,
    <<Lit("ART."), D1>>,
    <<Lit("LEY "), D1>>,
    <<Lit("SE CORRIGE")>>,
    <<Lit("SE CREA")>>,
    <<Lit("*"), Opt(<<Lit(" ")>>), Lit("*"), Opt(<<Lit(" ")>>), Lit("*")>>>>

incomplete_indicators ==
  <<<<Wb, Lit("EN"), S0, Eos>>,
    <<Wb, Lit("EN EL"), S0, Eos>>,
    <<Wb, Lit("EN LA"), S0, Eos>>,
    <<Wb, Lit("EN LOS"), S0, Eos>>,
    <<Wb, Lit("EN LAS"), S0, Eos>>,
    <<Wb, Lit("EL"), S0, Eos>>,
    <<Wb, Lit("DE"), S0, Eos>>,
    <<Wb, Lit("DEL"), S0, Eos>>,
    <<Wb, Lit("LA"), S0, Eos>>,
    <<Wb, Lit("LAS"), S0, Eos>>,
    <<Wb, Lit("LOS"), S0, Eos>>,
    <<Wb, Lit("UN"), S0, Eos>>,
    <<Wb, Lit("UNA"), S0, Eos>>,
    <<Wb, Lit("PISO"), S0, Eos>>,
    <<Wb, Lit("TORRE"), S0, Eos>>,
    <<Wb, Lit("APARTAMENTO"), S0, Eos>>,
    <<Wb, Lit("LOCAL"), S0, Eos>>,
    <<Wb, Lit("DEPOSITO"), S0, Eos>>,
    <<Wb, Lit("PARQUEADERO"), S0, Eos>>,
    <<Lit("-"), S0, Eos>>>>

\* \bPISO\s*$
piso_end_pattern == <<Wb, Lit("PISO"), S0, Eos>>

\* ^(PRIMER|SEGUNDO|...|DECIMO|UNO|DOS|...|DIEZ|\d+)
ordinal_start_pattern ==
  <<Bos, Grp(1, <<Alt(<<<<Lit("PRIMER")>>, <<Lit("SEGUNDO")>>, <<Lit("TERCER")>>,
                        <<Lit("CUARTO")>>, <<Lit("QUINTO")>>, <<Lit("SEXTO")>>,
                        <<Lit("SEPTIMO")>>, <<Lit("OCTAVO")>>, <<Lit("NOVENO")>>,
                        <<Lit("DECIMO")>>, <<Lit("UNO")>>, <<Lit("DOS")>>, <<Lit("TRES")>>,
                        <<Lit("CUATRO")>>, <<Lit("CINCO")>>, <<Lit("SEIS")>>,
                        <<Lit("SIETE")>>, <<Lit("OCHO")>>, <<Lit("NUEVE")>>,
                        <<Lit("DIEZ")>>, <<D1>>>>)>>)>>

continuation_patterns ==
  <<<<Bos, Grp(1, <<Alt(<<<<Lit("PRIMER")>>, <<Lit("SEGUNDO")>>, <<Lit("TERCER")>>, <<Lit("CUARTO")>>, <<Lit("QUINTO")>>, <<Lit("SEXTO")>>, <<Lit("SEPTIMO")>>, <<Lit("OCTAVO")>>, <<Lit("NOVENO")>>, <<Lit("DECIMO")>>>>)>>), S1, Lit("PISO")>>,
    <<Bos, Grp(1, <<Alt(<<<<Lit("UNO")>>, <<Lit("DOS")>>, <<Lit("TRES")>>, <<Lit("CUATRO")>>, <<Lit("CINCO")>>, <<Lit("SEIS")>>, <<Lit("SIETE")>>, <<Lit("OCHO")>>, <<Lit("NUEVE")>>, <<Lit("DIEZ")>>>>)>>), S0, Lit("-")>>,
    <<Bos, D1, S1, Lit("PISO")>>,
    <<Bos, Lit("PISO"), S1, D1>>,
    <<Bos, Lit("TORRE"), S1, D1>>,
    <<Bos, Lit("APARTAMENTO"), S1, D1>>,
    <<Bos, Lit("LOCAL"), S1, D1>>,
    <<Bos, Lit("DEPOSITO"), S1, D1>>,
    <<Bos, Lit("PARQUEADERO")>>,
    <<Bos, Lit("UBICADO")>>,
    <<Bos, Lit("EN EL")>>,
    <<Bos, Lit("EN LA")>>,
    <<Bos, Lit("DEL"), S1, W1>>,
    <<Bos, Lit("DE"), S1, W1>>>>

common_words ==
  <<"PISO",
    "TORRE",
    "APARTAMENTO",
    "LOCAL",
    "DEPOSITO",
    "PARQUEADERO",
    "UBICADO",
    "PRIMER",
    "SEGUNDO",
    "TERCER",
    "CUARTO",
    "QUINTO",
    "SEXTO",
    "SEPTIMO",
    "OCTAVO",
    "NOVENO",
    "DECIMO",
    "UNO",
    "DOS",
    "TRES",
    "CUATRO",
    "CINCO",
    "SEIS",
    "SIETE",
    "OCHO",
    "NUEVE",
    "DIEZ">>

footer_cleanup_patterns ==
  <<<<S0, Lit("-"), S0, Lit("OFICINA DE REGISTRO"), Star(<<Dot>>), Eos>>,
    <<S0, Lit("OFICINA DE REGISTRO"), Star(<<Dot>>), Eos>>,
    <<S0, Lit("CERTIFICADO DE TRADICION"), Star(<<Dot>>), Eos>>,
    <<S0, Lit("MATRICULA INMOBILIARIA"), Star(<<Dot>>), Eos>>,
    <<S0, Lit("La validez de este documento"), Star(<<Dot>>), Eos>>,
    <<S0, Lit("certificados.supernotariado.gov.co"), Star(<<Dot>>), Eos>>,
    <<S0, Lit("Certificado generado con el Pin No:"), Star(<<Dot>>), Eos>>,
    <<S0, Lit("Nro Matrícula:"), Star(<<Dot>>), Eos>>,
    <<S0, Lit("Pagina "), D1, Star(<<Dot>>), Eos>>,
    <<S0, Lit("TURNO:"), Star(<<Dot>>), Eos>>,
    <<S0, Lit("Impreso el"), Star(<<Dot>>), Eos>>,
    <<S0, Lit("No tiene validez"), Star(<<Dot>>), Eos>>,
    <<S0, Lit("ESTE CERTIFICADO REFLEJA"), Star(<<Dot>>), Eos>>,
    <<S0, Lit("HASTA LA FECHA Y HORA"), Star(<<Dot>>), Eos>>,
    <<S0, Lit("SNR"), Star(<<Dot>>), Eos>>,
    <<S0, Lit("SUPERINTENDENCIA"), Star(<<Dot>>), Eos>>,
    <<S0, Lit("SALVEDADES:"), Star(<<Dot>>), Eos>>,
    <<S0, Lit("Información Anterior o Corregida"), Star(<<Dot>>), Eos>>,
    <<S0, Lit("Anotación"), Star(<<Dot>>), Eos>>,
    <<S0, Lit("Anotacion"), Star(<<Dot>>), Eos>>,
    <<S0, Lit("Nro corrección"), Star(<<Dot>>), Eos>>,
    <<S0, Lit("Nro correccion"), Star(<<Dot>>), Eos>>,
    <<S0, Lit("Radicación:"), Star(<<Dot>>), Eos>>,
    <<S0, Lit("Radicacion:"), Star(<<Dot>>), Eos>>,
    <<S0, Lit("CORREGIDO EN CABIDA"), Star(<<Dot>>), Eos>>,
    <<S0, Lit("CORREGIDO EN LINDEROS"), Star(<<Dot>>), Eos>>,
    <<S0, Lit("NUMERO DE DOCUMENTO"), Star(<<Dot>>), Eos>>,
    <<S0, Lit("VALE."), Star(<<Dot>>), Eos>>,
    <<S0, Lit("ART."), D1, Star(<<Dot>>), Eos>>,
    <<S0, Lit("LEY "), D1, Star(<<Dot>>), Eos>>>>

\* \s+
spaces_pattern == <<S1>>
\* \s*-\s*(?:\s*=\s*){2,}\.?\s*$
hyphen_equals_pattern ==
  <<S0, Lit("-"), S0, Rep(<<S0, Lit("="), S0>>, 2, -1), Opt(<<Lit(".")>>), S0, Eos>>
\* (?:\s*=\s*){2,}\.?\s*$
equals_pattern == <<Rep(<<S0, Lit("="), S0>>, 2, -1), Opt(<<Lit(".")>>), S0, Eos>>
\* \b(ETAPA|PISO|TORRE|APARTAMENTO|LOCAL|DEPOSITO|PARQUEADERO|BODEGA|OFICINA|LOTE|MANZANA)\s+-\s*$
unit_hyphen_pattern ==
  <<Wb, Grp(1, <<Alt(<<<<Lit("ETAPA")>>, <<Lit("PISO")>>, <<Lit("TORRE")>>,
                       <<Lit("APARTAMENTO")>>, <<Lit("LOCAL")>>, <<Lit("DEPOSITO")>>,
                       <<Lit("PARQUEADERO")>>, <<Lit("BODEGA")>>, <<Lit("OFICINA")>>,
                       <<Lit("LOTE")>>, <<Lit("MANZANA")>>>>)>>), S1, Lit("-"), S0, Eos>>
\* \s*[-.]+\s*$
trailing_marks_pattern == <<S0, Plus(<<In({"-", "."})>>), S0, Eos>>
\* ^\s*[-]+\s*
leading_hyphens_pattern == <<Bos, S0, Plus(<<In({"-"})>>), S0>>
\* \d+-\d+[,\s]*$
trailing_matricula_pattern == <<D1, Lit("-"), D1, Star(<<In(Space \cup {","})>>), Eos>>
\* ,+$
trailing_commas_pattern == <<Plus(<<In({","})>>), Eos>>

(***************************************************************************)
(* Dictionaries                                                            *)
(***************************************************************************)
EmptyDict == [k \in {} |-> ""]
\* d[k] = v
Put(d, k, v) == (k :> v) @@ d
\* d.get(k, "")
Get(d, k) == IF k \in DOMAIN d THEN d[k] ELSE ""

(***************************************************************************)
(* extract_properties_from_pdf: the helpers                                *)
(***************************************************************************)
NoIntro == [ok |-> FALSE, num_before |-> "", folio |-> "", property_start |-> ""]
Intro(n, f, p) == [ok |-> TRUE, num_before |-> n, folio |-> f, property_start |-> p]

\* groups 1-3 of a match as an introduction
intro_of(line, match) ==
  IF match.ok THEN Intro(Group(line, match, 1), Group(line, match, 2), Group(line, match, 3))
  ELSE NoIntro

\* lines 120-129: the loop over property_keywords
RECURSIVE keyword_result(_, _, _, _)
RECURSIVE keyword_step(_, _, _, _, _)
keyword_result(keywords, line, remaining_text, num_before) ==
  IF Len(keywords) = 0 THEN NoIntro
  ELSE keyword_step(keywords, line, remaining_text, num_before,
                    IF Search(keywords[1], remaining_text, TRUE).ok
                    THEN Search(folio_keyword_pattern(keywords[1]), line, TRUE)
                    ELSE Fail)

keyword_step(keywords, line, remaining_text, num_before, folio_match) ==
  IF folio_match.ok THEN Intro(num_before, Group(line, folio_match, 2), remaining_text)
  ELSE keyword_result(Tail(keywords), line, remaining_text, num_before)

\* lines 144-150
number_letter_result(line, property_start, number_letter_match) ==
  IF number_letter_match.ok /\ property_start # ""
  THEN Intro(Group(line, number_letter_match, 1), Group(line, number_letter_match, 2),
             property_start)
  ELSE NoIntro

number_letter_intro(line, number_letter_match) ==
  number_letter_result(line,
                       IF number_letter_match.ok
                       THEN Strip(LStripDigits(Group(line, number_letter_match, 3)))
                       ELSE "",
                       number_letter_match)

\* the first of the three results that is an introduction
first_result(by_keyword, by_transition, by_number_letter) ==
  IF by_keyword.ok THEN by_keyword
  ELSE IF by_transition.ok THEN by_transition
  ELSE by_number_letter

\* lines 93-152
concatenated_rest(line, num_before, remaining_text) ==
  IF MatchAt1(separator_pattern, remaining_text, FALSE).ok \/ remaining_text = "" THEN NoIntro
  ELSE first_result(keyword_result(property_keywords, line, remaining_text, num_before),
                    intro_of(line, Search(transition_pattern, line, FALSE)),
                    number_letter_intro(line, Search(number_letter_pattern, line, FALSE)))

\* lines 86-91
concatenated_from(line, base_match) ==
  IF ~base_match.ok THEN NoIntro
  ELSE concatenated_rest(line, Group(line, base_match, 1),
                         Strip(SliceFrom(line, GroupEnd(base_match, 2) - 1)))

extract_concatenated_folio(line) == concatenated_from(line, Search(base_pattern, line, FALSE))

\* the introduction a match of the normal pattern gives, the concatenated form otherwise
introduction_from(line, match) ==
  IF match.ok THEN intro_of(line, match) ELSE extract_concatenated_folio(line)

\* lines 204-214: the normal pattern first, the concatenated form otherwise
folio_introduction(line) == introduction_from(line, Search(pattern_folio_normal, line, FALSE))

\* re.search(pattern_folio_normal, line) or extract_concatenated_folio(line)
is_folio_introduction(line) == folio_introduction(line).ok

is_footer_or_header(line) == AnySearch(footer_patterns, UpperStr(line), TRUE)

looks_incomplete(property_text) == AnySearch(incomplete_indicators, property_text, TRUE)

\* lines 264-307 on the upper-cased, stripped line
continuation_of(line_upper, previous_text) ==
  IF line_upper = "" THEN FALSE
  ELSE IF previous_text # ""
          /\ Search(piso_end_pattern, UpperStr(previous_text), FALSE).ok
          /\ Search(ordinal_start_pattern, line_upper, FALSE).ok THEN TRUE
  ELSE IF AnySearch(continuation_patterns, line_upper, FALSE) THEN TRUE
  ELSE Len(SplitWords(line_upper)) <= 3
       /\ \E w \in 1..Len(common_words) : Contains(line_upper, common_words[w])

looks_like_continuation(line, previous_text) ==
  continuation_of(Strip(UpperStr(line)), previous_text)

\* the first pattern from k on that is found in X, Len(patterns) + 1 if none is
RECURSIVE first_found(_, _, _)
first_found(patterns, X, k) ==
  IF k > Len(patterns) THEN k
  ELSE IF FindFrom(patterns[k], X, 1).ok THEN k
  ELSE first_found(patterns, X, k + 1)

\* lines 468-469, the loop over footer_cleanup_patterns from the pattern at from on:
\* a pattern that is not found leaves the name as it is, so the loop goes from one
\* pattern that is found to the next
RECURSIVE footer_cleanup(_, _, _)
RECURSIVE footer_cleanup_at(_, _, _)
footer_cleanup(patterns, property_name, from) ==
  IF property_name = "" THEN ""
  ELSE footer_cleanup_at(patterns, property_name,
                         first_found(patterns, Subject(property_name, TRUE, FALSE), from))

footer_cleanup_at(patterns, property_name, k) ==
  IF k > Len(patterns) THEN property_name
  ELSE footer_cleanup(patterns, Sub(patterns[k], "", property_name, TRUE), k + 1)

\* lines 427-496, the steps of the cleaning from the last to the first; every step
\* leaves an empty name empty
\* line 496
clean_trailing_commas(property_name) ==
  IF property_name = "" THEN ""
  ELSE Strip(Sub(trailing_commas_pattern, "", property_name, FALSE))
\* line 495
clean_trailing_matricula(property_name) ==
  IF property_name = "" THEN ""
  ELSE clean_trailing_commas(Strip(Sub(trailing_matricula_pattern, "", property_name, FALSE)))
\* line 492
clean_leading_hyphens(property_name) ==
  IF property_name = "" THEN ""
  ELSE clean_trailing_matricula(Strip(Sub(leading_hyphens_pattern, "", property_name, FALSE)))
\* lines 485-486
clean_trailing_marks(property_name) ==
  IF property_name = "" THEN ""
  ELSE clean_leading_hyphens(IF ~Search(unit_hyphen_pattern, property_name, TRUE).ok
                             THEN Strip(Sub(trailing_marks_pattern, "", property_name, FALSE))
                             ELSE property_name)
\* line 479
clean_equals(property_name) ==
  IF property_name = "" THEN ""
  ELSE clean_trailing_marks(Strip(Sub(equals_pattern, "", property_name, FALSE)))
\* line 478
clean_hyphen_equals(property_name) ==
  IF property_name = "" THEN ""
  ELSE clean_equals(Strip(Sub(hyphen_equals_pattern, "", property_name, FALSE)))
\* line 472
clean_spaces(property_name) ==
  IF property_name = "" THEN ""
  ELSE clean_hyphen_equals(Sub(spaces_pattern, " ", property_name, FALSE))
\* lines 468-469
clean_footers(property_name) ==
  IF property_name = "" THEN ""
  ELSE clean_spaces(footer_cleanup(footer_cleanup_patterns, property_name, 1))

\* lines 427-496: the cleaned property name of the assembled parts
clean_property_name(property_parts) == clean_footers(Strip(JoinSpace(property_parts)))

(***************************************************************************)
(* extract_oficina_registro                                                *)
(***************************************************************************)
\* OFICINA DE REGISTRO DE INSTRUMENTOS PUBLICOS DE\s+([A-ZÁÉÍÓÚÑ\s]+?)(?:\s*\n|CERTIFICADO|MATRICULA|$)
oficina_pattern ==
  <<Lit("OFICINA DE REGISTRO DE INSTRUMENTOS PUBLICOS DE"), S1,
    Grp(1, <<LazyRep(<<In(AZ \cup Space \cup {"Á", "É", "Í", "Ó", "Ú", "Ñ"})>>, 1, -1)>>),
    Alt(<<<<S0, Lit("\n")>>, <<Lit("CERTIFICADO")>>, <<Lit("MATRICULA")>>, <<Eos>>>>)>>
\* \s+(CERTIFICADO|MATRICULA).*$
oficina_tail_pattern ==
  <<S1, Grp(1, <<Alt(<<<<Lit("CERTIFICADO")>>, <<Lit("MATRICULA")>>>>)>>), Star(<<Dot>>), Eos>>
\* OFICINA DE REGISTRO DE INSTRUMENTOS PUBLICOS DE
oficina_anchor_pattern == <<Lit("OFICINA DE REGISTRO DE INSTRUMENTOS PUBLICOS DE")>>
\* ^(CERTIFICADO|MATRICULA)
heading_pattern == <<Bos, Grp(1, <<Alt(<<<<Lit("CERTIFICADO")>>, <<Lit("MATRICULA")>>>>)>>)>>

\* lines 558-560 (and 538-543 after the strip)
oficina_cleaned(text) ==
  Strip(Sub(oficina_tail_pattern, "", Sub(spaces_pattern, " ", text, FALSE), TRUE))

\* lines 553-562: the office the line after an anchor line gives, "" if it gives none
oficina_after(next_line) ==
  IF next_line # "" /\ ~Search(heading_pattern, next_line, TRUE).ok
  THEN oficina_cleaned(next_line)
  ELSE ""

\* lines 549-562: the loop over the lines
RECURSIVE oficina_next_line(_, _)
RECURSIVE oficina_or_next(_, _, _)
oficina_next_line(lines, i) ==
  IF i >= Len(lines) THEN ""
  ELSE oficina_or_next(lines, i,
                       IF Search(oficina_anchor_pattern, lines[i + 1], TRUE).ok
                          /\ i + 1 < Len(lines)
                       THEN oficina_after(Strip(lines[i + 2]))
                       ELSE "")

oficina_or_next(lines, i, oficina) ==
  IF oficina # "" THEN oficina ELSE oficina_next_line(lines, i + 1)

\* lines 537-564
oficina_or_lines(pdf_text, oficina) ==
  IF oficina # "" THEN oficina ELSE oficina_next_line(SplitLines(pdf_text), 0)

\* lines 535-545
oficina_same_line(pdf_text, match) ==
  IF match.ok THEN oficina_cleaned(Strip(Group(pdf_text, match, 1))) ELSE ""

extract_oficina_registro(pdf_text) ==
  oficina_or_lines(pdf_text, oficina_same_line(pdf_text, SearchML(oficina_pattern, pdf_text, TRUE)))

(***************************************************************************)
(* extract_escritura_from_anotacion                                        *)
(***************************************************************************)
\* ANOTACION:\s*Nro\s+{numero_anotacion}
anotacion_pattern(numero_anotacion) ==
  <<Lit("ANOTACION:"), S0, Lit("Nro"), S1, Lit(numero_anotacion)>>
\* ANOTACION:\s*Nro\s+\d{3}
next_anotacion_pattern == <<Lit("ANOTACION:"), S0, Lit("Nro"), S1, Rep(<<In(Digit)>>, 3, 3)>>
\* Doc:\s*(ESCRITURA\s+\d+\s+(?:DEL|DE)\s+\d{1,2}[-/]\d{1,2}[-/]\d{4})
escritura_pattern ==
  <<Lit("Doc:"), S0,
    Grp(1, <<Lit("ESCRITURA"), S1, D1, S1, Alt(<<<<Lit("DEL")>>, <<Lit("DE")>>>>), S1,
             Rep(<<In(Digit)>>, 1, 2), In({"-", "/"}), Rep(<<In(Digit)>>, 1, 2),
             In({"-", "/"}), Rep(<<In(Digit)>>, 4, 4)>>)>>

\* lines 595-600
end_from(pdf_text, anotacion_start, next_match) ==
  IF next_match.ok THEN anotacion_start + 1 + (next_match.b - 1) ELSE Len(pdf_text)

\* a variant of the block's end that is the end of the text
text_end(pdf_text, anotacion_start) == Len(pdf_text)

\* lines 588-600: the end of the block that starts at anotacion_start
anotacion_end(pdf_text, anotacion_start) ==
  end_from(pdf_text, anotacion_start,
           Search(next_anotacion_pattern, SliceFrom(pdf_text, anotacion_start + 1), TRUE))

\* lines 608-613: the citation found in the block's text
escritura_in(anotacion_text, escritura_match) ==
  IF escritura_match.ok THEN Strip(Group(anotacion_text, escritura_match, 1)) ELSE ""

\* lines 603-613
escritura_of_block(anotacion_text) ==
  escritura_in(anotacion_text, Search(escritura_pattern, anotacion_text, TRUE))

\* a variant that looks for the citation in the whole text when the marker is missing
escritura_anywhere(pdf_text, anotacion_match) ==
  IF ~anotacion_match.ok THEN escritura_of_block(pdf_text)
  ELSE escritura_of_block(Slice(pdf_text, anotacion_match.b - 1,
                                anotacion_end(pdf_text, anotacion_match.b - 1)))

\* lines 584-613
escritura_from(pdf_text, anotacion_match) ==
  IF ~anotacion_match.ok THEN ""
  ELSE escritura_of_block(Slice(pdf_text, anotacion_match.b - 1,
                                anotacion_end(pdf_text, anotacion_match.b - 1)))

extract_escritura_from_anotacion(pdf_text, numero_anotacion) ==
  escritura_from(pdf_text, Search(anotacion_pattern(numero_anotacion), pdf_text, TRUE))

(***************************************************************************)
(* extract_folios_from_matriculas                                          *)
(***************************************************************************)
\* (\d+[A-Z]?)\s*-\s*(\d+)
folio_pattern == <<Grp(1, <<D1, Opt(<<In(AZ)>>)>>), S0, Lit("-"), S0, Grp(2, <<D1>>)>>

\* a variant of the loop in which a later circle replaces the first one
RECURSIVE folios_loop_last_circle(_, _, _, _)
folios_loop_last_circle(text, matches, folio_to_circulo, folios) ==
  IF Len(matches) = 0 THEN [folio_to_circulo |-> folio_to_circulo, folios |-> folios]
  ELSE folios_loop_last_circle(
         text, Tail(matches),
         Put(folio_to_circulo, Group(text, matches[1], 2), Group(text, matches[1], 1)),
         IF Group(text, matches[1], 2) \notin DOMAIN folio_to_circulo
         THEN Append(folios, Group(text, matches[1], 2)) ELSE folios)

\* lines 637-643: the loop over the matches
RECURSIVE folios_loop(_, _, _, _)
folios_loop(text, matches, folio_to_circulo, folios) ==
  IF Len(matches) = 0 THEN [folio_to_circulo |-> folio_to_circulo, folios |-> folios]
  ELSE
    LET circulo == Group(text, matches[1], 1)
        folio == Group(text, matches[1], 2)
    IN IF folio \notin DOMAIN folio_to_circulo
       THEN folios_loop(text, Tail(matches), Put(folio_to_circulo, folio, circulo),
                        Append(folios, folio))
       ELSE folios_loop(text, Tail(matches), folio_to_circulo, folios)

extract_folios_from_matriculas(matriculas_text) ==
  folios_loop(matriculas_text, FindAll(folio_pattern, matriculas_text, FALSE), EmptyDict, <<>>)

(***************************************************************************)
(* extract_properties_from_pdf: one iteration of the assembly loop         *)
(***************************************************************************)
max_additional_lines == 20
\* a first part shorter than this is "only the start" of a description
short_start_length == 50
\* consecutive header/footer lines tolerated while the description is incomplete
header_tolerance == 5
\* the width str.zfill pads the annotation number to
anotacion_width == 3

Min(a, b) == IF a < b THEN a ELSE b

\* lines 352-361: the look ahead after a header or footer, from line k to line hi - 1
RECURSIVE useful_from(_, _, _, _)
RECURSIVE useful_at(_, _, _, _, _)
useful_from(lines, k, hi, current_property) ==
  IF k >= hi THEN FALSE
  ELSE useful_at(lines, k, hi, current_property, Strip(lines[k + 1]))

useful_at(lines, k, hi, current_property, check_line) ==
  IF check_line # "" /\ ~is_footer_or_header(check_line)
  THEN IF looks_like_continuation(check_line, current_property) THEN TRUE
       ELSE IF is_folio_introduction(check_line) THEN FALSE
       ELSE useful_from(lines, k + 1, hi, current_property)
  ELSE useful_from(lines, k + 1, hi, current_property)

\* lines 350-361: found_useful_content
found_useful_content(lines, j, current_property) ==
  useful_from(lines, j + 1, Min(j + 4, Len(lines)), current_property)

\* lines 391-392
is_continuation_or_introduction(check_line) ==
  check_line # "" /\ ~is_footer_or_header(check_line)
  /\ (looks_like_continuation(check_line, "") \/ is_folio_introduction(check_line))

\* lines 388-394: found_continuation, the look ahead after an empty line
found_continuation(lines, j) ==
  \E k \in (j + 1)..(Min(j + 5, Len(lines)) - 1) :
    is_continuation_or_introduction(Strip(lines[k + 1]))

\* the iteration's ways to end: on to the next line, out of the loop, the line appended
Skip(st) == [brk |-> FALSE, st |-> [st EXCEPT !.j = @ + 1]]
Break(st) == [brk |-> TRUE, st |-> st]
Added(st, property_parts) ==
  [brk |-> FALSE,
   st |-> [st EXCEPT !.j = @ + 1,
                     !.property_parts = property_parts,
                     !.lines_read = @ + 1,
                     !.is_incomplete = looks_incomplete(JoinSpace(property_parts))]]
Add(st, next_line) == Added(st, Append(st.property_parts, next_line))

\* a variant of the short start in which no description is one
short_start_never(property_parts) == FALSE

\* line 335: only the start of the description was read and it is short
short_start(property_parts) ==
  Len(property_parts) = 1 /\ Len(Strip(property_parts[1])) < short_start_length

\* a variant of the tolerance without a limit
tolerated_always(consecutive_headers) == TRUE

\* line 342: not too many headers one after another
tolerated(consecutive_headers) == consecutive_headers <= header_tolerance

\* lines 324-373: the line is a header or footer
header_branch(lines, st, current_property, is_currently_incomplete) ==
  IF short_start(st.property_parts)
  THEN Skip(st)
  ELSE IF is_currently_incomplete
    THEN (IF tolerated(st.consecutive_headers) THEN Skip(st) ELSE Break(st))
  ELSE IF found_useful_content(lines, st.j, current_property) THEN Skip(st)
  ELSE Break(st)

\* lines 378-398: the line is empty
empty_branch(lines, st, is_currently_incomplete) ==
  IF st.is_incomplete THEN Skip(st)
  ELSE IF Len(st.property_parts) > 0 /\ ~is_currently_incomplete
          /\ ~found_continuation(lines, st.j) THEN Break(st)
  ELSE Skip(st)

\* lines 401-424: the line has content
content_branch(st, next_line, is_currently_incomplete, continuation) ==
  IF st.is_incomplete \/ continuation \/ Len(st.property_parts) = 0 THEN Add(st, next_line)
  ELSE IF ~is_currently_incomplete
    THEN (IF ~continuation THEN Break(st) ELSE Add(st, next_line))
  ELSE Skip(st)

\* lines 324-424
iteration_by(lines, st, next_line, current_property, footer, is_currently_incomplete) ==
  IF footer
  THEN header_branch(lines, [st EXCEPT !.consecutive_headers = @ + 1], current_property,
                     is_currently_incomplete)
  ELSE IF next_line = ""
    THEN empty_branch(lines, [st EXCEPT !.consecutive_headers = 0], is_currently_incomplete)
  ELSE content_branch([st EXCEPT !.consecutive_headers = 0], next_line,
                      is_currently_incomplete,
                      looks_like_continuation(next_line, current_property))

\* lines 317-424
iteration_on(lines, st, next_line, current_property) ==
  iteration_by(lines, st, next_line, current_property, is_footer_or_header(next_line),
               looks_incomplete(current_property))

\* a variant of the body that does not look for an introduction in the line
iteration_merging(lines, st) ==
  iteration_on(lines, st, Strip(lines[st.j + 1]), JoinSpace(st.property_parts))

\* lines 317-424: the body of the loop on the loop's variables st; brk: it breaks
inner_iteration(lines, st) ==
  IF is_folio_introduction(lines[st.j + 1]) THEN Break(st)
  ELSE iteration_on(lines, st, Strip(lines[st.j + 1]), JoinSpace(st.property_parts))

\* a variant of the loop's condition without the limit on the lines read
condition_unlimited(lines, st) == st.j < Len(lines)

\* line 316: the loop's condition
inner_condition(lines, st) == st.j < Len(lines) /\ st.lines_read < max_additional_lines

\* lines 222-314: the loop's variables when the assembly of line i begins
inner_start(i, property_start) ==
  [property_parts |-> <<Strip(property_start)>>,
   j |-> i + 1,
   lines_read |-> 0,
   consecutive_headers |-> 0,
   is_incomplete |-> looks_incomplete(Strip(property_start))]

\* a variant of the resumption that starts after the line the assembly stopped at
resume_after(j) == j + 1

\* line 506: the outer loop resumes at the line the assembly stopped at
resume_at(j) == j

\* a variant of the store that keeps an empty description too
store_always(folio_to_property, folio, property_name) ==
  Put(folio_to_property, folio, property_name)

\* lines 499-500: the description is stored unless it is empty
store_property(folio_to_property, folio, property_name) ==
  IF property_name # "" THEN Put(folio_to_property, folio, property_name)
  ELSE folio_to_property

\* a variant of the padding that leaves the number as it is written
unpadded(num_before) == num_before

\* line 503: num_before.zfill(3)
padded(num_before) == ZFill(num_before, anotacion_width)

\* lines 499-504: the annotation number is stored with the description
store_anotacion(folio_to_anotacion, folio, property_name, numero_anotacion) ==
  IF property_name # "" THEN Put(folio_to_anotacion, folio, numero_anotacion)
  ELSE folio_to_anotacion

\* a variant of the test of line 217 that takes no folio for stored
never_stored(folio, folio_to_property) == FALSE

\* line 217: the folio is already stored
already_stored(folio, folio_to_property) == folio \in DOMAIN folio_to_property

(***************************************************************************)
(* process_properties: the deed cache and the rows                         *)
(***************************************************************************)
\* line 690
in_cache(anotacion_to_escritura, numero_anotacion) ==
  numero_anotacion \in DOMAIN anotacion_to_escritura
\* a variant of the cache that keeps no empty deed
cache_put_nonempty(anotacion_to_escritura, numero_anotacion, escritura) ==
  IF escritura = "" THEN anotacion_to_escritura
  ELSE Put(anotacion_to_escritura, numero_anotacion, escritura)
\* a variant of the cache that keeps the annotation number without its deed
cache_put_blank(anotacion_to_escritura, numero_anotacion, escritura) ==
  Put(anotacion_to_escritura, numero_anotacion, "")
\* line 693
cache_put(anotacion_to_escritura, numero_anotacion, escritura) ==
  Put(anotacion_to_escritura, numero_anotacion, escritura)
\* line 696
cache_get(anotacion_to_escritura, numero_anotacion) ==
  anotacion_to_escritura[numero_anotacion]
\* a variant of the row with the circle and the folio in each other's place
found_row_swapped(property_name, circulo, folio, escritura) ==
  <<property_name, folio, circulo, escritura>>
\* a variant of the row of a folio without description whose description is empty
not_found_row_blank(circulo, folio) == <<"", circulo, folio, "">>
\* line 698
found_row(property_name, circulo, folio, escritura) ==
  <<property_name, circulo, folio, escritura>>
\* line 701
not_found_row(circulo, folio) == <<"NO ENCONTRADO", circulo, folio, "">>

(***************************************************************************)
(* The state of a run of process_properties                                *)
(***************************************************************************)
VARIABLES
  matriculas_text,        \* the folio list given to process_properties
  pdf_text,               \* the certificate text
  pc,                     \* where the run is
  folio_to_circulo,       \* extract_folios_from_matriculas: folio -> circle
  folios,                 \* extract_folios_from_matriculas: the folios in order
  lines,                  \* extract_properties_from_pdf: pdf_text.split('\n')
  i,                      \* the outer loop's line offset (0-based)
  folio_to_property,      \* folio -> description
  folio_to_anotacion,     \* folio -> annotation number
  num_before,             \* the introduction being assembled
  folio,
  property_parts,         \* the assembly loop
  j,
  lines_read,
  consecutive_headers,
  is_incomplete,
  oficina_registro,       \* extract_oficina_registro's result
  anotacion_to_escritura, \* the deed cache
  property_data,          \* the rows
  not_found,              \* the folios without description
  row,                    \* how many folios of the list have their row
  numero_anotacion,       \* the annotation number last looked up
  escritura,              \* the deed last obtained
  scans,                  \* history: the calls of extract_escritura_from_anotacion
  yields,                 \* history: what the assembly of each introduction yielded
  certificado_files,      \* app.py: the text each uploaded certificate yields
  files_read,             \* app.py: how many of them have been read
  pdf_count,              \* app.py: how many of them gave text
  reports,                \* app.py: what the page shows, in order
  pending,                \* the inputs of the calls still to be made, one after another
  returned,               \* history: the input and the result of every call that returned
  other,                  \* the locals of a call that is suspended while this one runs
  evaluated               \* history: the line offsets the outer loop took as introductions

inputVars == <<matriculas_text, pdf_text>>
folioVars == <<folio_to_circulo, folios>>
mapVars == <<folio_to_property, folio_to_anotacion>>
introVars == <<num_before, folio>>
innerVars == <<property_parts, j, lines_read, consecutive_headers, is_incomplete>>
rowVars == <<anotacion_to_escritura, property_data, not_found, row, numero_anotacion,
             escritura, scans>>
appVars == <<certificado_files, files_read, pdf_count, reports>>
callVars == <<pending, returned, other, evaluated>>
vars == <<inputVars, pc, folioVars, lines, i, mapVars, introVars, innerVars,
          oficina_registro, rowVars, yields, appVars, callVars>>

\* the assembly loop's variables as one record
st == [property_parts |-> property_parts, j |-> j, lines_read |-> lines_read,
       consecutive_headers |-> consecutive_headers, is_incomplete |-> is_incomplete]

SetInner(s) ==
  /\ property_parts' = s.property_parts
  /\ j' = s.j
  /\ lines_read' = s.lines_read
  /\ consecutive_headers' = s.consecutive_headers
  /\ is_incomplete' = s.is_incomplete

(***************************************************************************)
(* The inputs                                                              *)
(***************************************************************************)
MaxLines == 3
MaxPieces == 4
MaxFragments == 3
MaxTail == 1

\* the sequences over the members 1..Len(pool) of at least lo and at most hi members
Picks(pool, lo, hi) ==
  UNION {[1..n -> 1..Len(pool)] : n \in lo..hi}
RECURSIVE Concat(_, _)
Concat(pool, pick) ==
  IF Len(pick) = 0 THEN "" ELSE pool[pick[1]] \o Concat(pool, Tail(pick))
LinesOf(pool, pick) == JoinLines([n \in 1..Len(pick) |-> pool[pick[n]]])

MatriculasTexts == {"176-19 51N-33", "1-27\n2-19\n3-27"}
PdfLines ==
  <<"3 -> 19 : TORRE 9",
    "3 -> 27 : LOCAL 1",
    "4 -> 19 : LOCAL 2",
    "ANOTACION: Nro 003 Doc: ESCRITURA 7 DEL 1-2-2000",
    "ANOTACION: Nro 004">>

\* no call is suspended
NoContext == [pc |-> "none"]

BlankRun ==
  /\ folio_to_circulo = EmptyDict /\ folios = <<>>
  /\ lines = <<>> /\ i = 0
  /\ folio_to_property = EmptyDict /\ folio_to_anotacion = EmptyDict
  /\ num_before = "" /\ folio = ""
  /\ property_parts = <<>> /\ j = 0 /\ lines_read = 0
  /\ consecutive_headers = 0 /\ is_incomplete = FALSE
  /\ oficina_registro = ""
  /\ anotacion_to_escritura = EmptyDict /\ property_data = <<>> /\ not_found = <<>>
  /\ row = 0 /\ numero_anotacion = "" /\ escritura = ""
  /\ scans = <<>>
  /\ yields = <<>>
  /\ files_read = 0 /\ pdf_count = 0 /\ reports = <<>>
  /\ returned = <<>> /\ other = NoContext /\ evaluated = {}

\* a single call that the page did not start
Blank == BlankRun /\ certificado_files = <<>> /\ pending = <<>>

Init ==
  /\ matriculas_text \in MatriculasTexts
  /\ pdf_text \in {LinesOf(PdfLines, pick) : pick \in Picks(PdfLines, 1, MaxLines)}
  /\ pc = "folios"
  /\ Blank

(***************************************************************************)
(* process_properties, line 663                                            *)
(***************************************************************************)
ExtractFolios ==
  /\ pc = "folios"
  /\ LET r == extract_folios_from_matriculas(matriculas_text)
     IN /\ folio_to_circulo' = r.folio_to_circulo
        /\ folios' = r.folios
  /\ pc' = "properties"
  /\ UNCHANGED <<callVars, appVars, yields, inputVars, lines, i, mapVars, introVars, innerVars, oficina_registro,
                 rowVars>>

(***************************************************************************)
(* extract_properties_from_pdf                                             *)
(***************************************************************************)
\* a variant in which the maps of the call before are kept
BeginStale ==
  /\ pc = "properties"
  /\ lines' = SplitLines(pdf_text)
  /\ i' = 0
  /\ yields' = <<>>
  /\ evaluated' = {}
  /\ pc' = "outer"
  /\ UNCHANGED <<pending, returned, other, appVars, inputVars, folioVars, mapVars, introVars,
                 innerVars, oficina_registro, rowVars>>

\* lines 51-55 and 197
Begin ==
  /\ pc = "properties"
  /\ folio_to_property' = EmptyDict
  /\ folio_to_anotacion' = EmptyDict
  /\ lines' = SplitLines(pdf_text)
  /\ i' = 0
  /\ yields' = <<>>
  /\ evaluated' = {}
  /\ pc' = "outer"
  /\ UNCHANGED <<pending, returned, other, appVars, inputVars, folioVars, introVars, innerVars, oficina_registro, rowVars>>

\* lines 198-211: the line introduces no folio
OuterSkip ==
  /\ pc = "outer" /\ i < Len(lines)
  /\ ~folio_introduction(lines[i + 1]).ok
  /\ i' = i + 1
  /\ UNCHANGED <<callVars, appVars, yields, inputVars, pc, folioVars, lines, mapVars, introVars, innerVars,
                 oficina_registro, rowVars>>

\* a variant of the skip of a stored folio that stays at the line
OuterDuplicateAgain ==
  /\ pc = "outer" /\ i < Len(lines)
  /\ LET intro == folio_introduction(lines[i + 1])
     IN /\ intro.ok
        /\ already_stored(intro.folio, folio_to_property)
        /\ num_before' = intro.num_before
        /\ folio' = intro.folio
  /\ evaluated' = evaluated \cup {i}
  /\ UNCHANGED <<pending, returned, other, appVars, yields, inputVars, pc, folioVars, lines,
                 i, mapVars, innerVars, oficina_registro, rowVars>>

\* lines 198-219: the line introduces a folio that is stored already
OuterDuplicate ==
  /\ pc = "outer" /\ i < Len(lines)
  /\ LET intro == folio_introduction(lines[i + 1])
     IN /\ intro.ok
        /\ already_stored(intro.folio, folio_to_property)
        /\ num_before' = intro.num_before
        /\ folio' = intro.folio
  /\ evaluated' = evaluated \cup {i}
  /\ i' = i + 1
  /\ UNCHANGED <<pending, returned, other, appVars, yields, inputVars, pc, folioVars, lines, mapVars, innerVars, oficina_registro,
                 rowVars>>

\* lines 198-314: the line introduces a new folio, its assembly begins
OuterBegin ==
  /\ pc = "outer" /\ i < Len(lines)
  /\ LET intro == folio_introduction(lines[i + 1])
     IN /\ intro.ok
        /\ ~already_stored(intro.folio, folio_to_property)
        /\ num_before' = intro.num_before
        /\ folio' = intro.folio
        /\ SetInner(inner_start(i, intro.property_start))
  /\ evaluated' = evaluated \cup {i}
  /\ pc' = "inner"
  /\ UNCHANGED <<pending, returned, other, appVars, yields, inputVars, folioVars, lines, i, mapVars, oficina_registro, rowVars>>

\* lines 316-424: an iteration that goes on to the next line
InnerContinue ==
  /\ pc = "inner"
  /\ inner_condition(lines, st)
  /\ LET r == inner_iteration(lines, st)
     IN /\ ~r.brk
        /\ SetInner(r.st)
  /\ UNCHANGED <<callVars, appVars, yields, inputVars, pc, folioVars, lines, i, mapVars, introVars, oficina_registro,
                 rowVars>>

\* lines 316-506: the loop ends; the description is cleaned and stored unless empty
InnerExit ==
  /\ pc = "inner"
  /\ LET r == IF inner_condition(lines, st) THEN inner_iteration(lines, st)
              ELSE [brk |-> TRUE, st |-> st]
         property_name == clean_property_name(r.st.property_parts)
     IN /\ r.brk
        /\ SetInner(r.st)
        /\ folio_to_property' = store_property(folio_to_property, folio, property_name)
        /\ folio_to_anotacion' =
             store_anotacion(folio_to_anotacion, folio, property_name, padded(num_before))
        /\ yields' = Append(yields, [folio |-> folio, line |-> i,
                                      property_name |-> property_name,
                                      num_before |-> num_before,
                                      numero_anotacion |-> padded(num_before),
                                      property_parts |-> r.st.property_parts,
                                      j |-> r.st.j])
        /\ i' = resume_at(r.st.j)
  /\ pc' = "outer"
  /\ UNCHANGED <<callVars, appVars, inputVars, folioVars, lines, introVars, oficina_registro, rowVars>>

\* lines 198 and 507-510
OuterReturn ==
  /\ pc = "outer" /\ ~(i < Len(lines))
  /\ i' = i + 1
  /\ pc' = "oficina"
  /\ UNCHANGED <<callVars, appVars, yields, inputVars, folioVars, lines, mapVars, introVars, innerVars,
                 oficina_registro, rowVars>>

(***************************************************************************)
(* process_properties, lines 669-703                                       *)
(***************************************************************************)
\* lines 669-676
Oficina ==
  /\ pc = "oficina"
  /\ oficina_registro' = extract_oficina_registro(pdf_text)
  /\ anotacion_to_escritura' = EmptyDict
  /\ property_data' = <<>>
  /\ not_found' = <<>>
  /\ row' = 0
  /\ pc' = "rows"
  /\ UNCHANGED <<callVars, appVars, yields, inputVars, folioVars, lines, i, mapVars, introVars, innerVars,
                 numero_anotacion, escritura, scans>>

\* lines 678-698: a folio with a description whose deed is looked up in the text
RowScan ==
  /\ pc = "rows" /\ row < Len(folios)
  /\ LET f == folios[row + 1]
         circulo == Get(folio_to_circulo, f)
         n == Get(folio_to_anotacion, f)
         e == extract_escritura_from_anotacion(pdf_text, n)
     IN /\ f \in DOMAIN folio_to_property
        /\ n # ""
        /\ ~in_cache(anotacion_to_escritura, n)
        /\ numero_anotacion' = n
        /\ escritura' = e
        /\ scans' = Append(scans, [numero_anotacion |-> n, folio |-> f, escritura |-> e])
        /\ anotacion_to_escritura' = cache_put(anotacion_to_escritura, n, e)
        /\ property_data' = Append(property_data, found_row(folio_to_property[f], circulo, f, e))
  /\ row' = row + 1
  /\ UNCHANGED <<callVars, appVars, yields, inputVars, pc, folioVars, lines, i, mapVars, introVars, innerVars,
                 oficina_registro, not_found>>

\* lines 678-698: a folio with a description whose deed the cache holds
RowCached ==
  /\ pc = "rows" /\ row < Len(folios)
  /\ LET f == folios[row + 1]
         circulo == Get(folio_to_circulo, f)
         n == Get(folio_to_anotacion, f)
         e == IF n # "" THEN cache_get(anotacion_to_escritura, n) ELSE ""
     IN /\ f \in DOMAIN folio_to_property
        /\ n # "" => in_cache(anotacion_to_escritura, n)
        /\ numero_anotacion' = n
        /\ escritura' = e
        /\ property_data' = Append(property_data, found_row(folio_to_property[f], circulo, f, e))
  /\ row' = row + 1
  /\ UNCHANGED <<callVars, appVars, yields, inputVars, pc, folioVars, lines, i, mapVars, introVars, innerVars,
                 oficina_registro, anotacion_to_escritura, not_found, scans>>

\* lines 678-680 and 699-701: a folio without description
RowNotFound ==
  /\ pc = "rows" /\ row < Len(folios)
  /\ LET f == folios[row + 1]
         circulo == Get(folio_to_circulo, f)
     IN /\ f \notin DOMAIN folio_to_property
        /\ not_found' = Append(not_found, f)
        /\ property_data' = Append(property_data, not_found_row(circulo, f))
  /\ row' = row + 1
  /\ UNCHANGED <<callVars, appVars, yields, inputVars, pc, folioVars, lines, i, mapVars, introVars, innerVars,
                 oficina_registro, anotacion_to_escritura, numero_anotacion, escritura,
                 scans>>

\* lines 678 and 703
Return ==
  /\ pc = "rows" /\ ~(row < Len(folios))
  /\ pc' = "done"
  /\ UNCHANGED <<callVars, appVars, yields, inputVars, folioVars, lines, i, mapVars, introVars, innerVars,
                 oficina_registro, rowVars>>

Next ==
  \/ ExtractFolios
  \/ Begin
  \/ OuterSkip
  \/ OuterDuplicate
  \/ OuterBegin
  \/ InnerContinue
  \/ InnerExit
  \/ OuterReturn
  \/ Oficina
  \/ RowScan
  \/ RowCached
  \/ RowNotFound
  \/ Return

Spec == Init /\ [][Next]_vars


(***************************************************************************)
(* extract_folios_from_matriculas alone, on texts put together from pieces *)
(***************************************************************************)
MatriculasPieces == <<"1-1 ", "2N-1\n", "1 - 2 ", "-", "1", "N">>

InitFolios ==
  /\ matriculas_text \in
       {Concat(MatriculasPieces, pick) : pick \in Picks(MatriculasPieces, 0, MaxPieces)}
  /\ pdf_text = ""
  /\ pc = "folios"
  /\ Blank

NextFolios == ExtractFolios

SpecFolios == InitFolios /\ [][NextFolios]_vars

(***************************************************************************)
(* extract_escritura_from_anotacion alone, on texts put together from      *)
(* markers and citations                                                   *)
(***************************************************************************)
DeedFragments ==
  <<"ANOTACION: Nro 001 ",
    "anotacion:nro 002\n",
    "ANOTACION: Nro 0012 ",
    "Doc: ESCRITURA 7 DEL 1-2-2000 ",
    "doc:escritura 8 de 03/04/2001">>
DeedNumbers == {"001", "002"}

InitDeed ==
  /\ matriculas_text = ""
  /\ pdf_text \in {Concat(DeedFragments, pick) : pick \in Picks(DeedFragments, 0, MaxFragments)}
  /\ pc = "deed"
  /\ folio_to_circulo = EmptyDict /\ folios = <<>>
  /\ lines = <<>> /\ i = 0
  /\ folio_to_property = EmptyDict /\ folio_to_anotacion = EmptyDict
  /\ num_before = "" /\ folio = ""
  /\ property_parts = <<>> /\ j = 0 /\ lines_read = 0
  /\ consecutive_headers = 0 /\ is_incomplete = FALSE
  /\ oficina_registro = ""
  /\ anotacion_to_escritura = EmptyDict /\ property_data = <<>> /\ not_found = <<>>
  /\ row = 0 /\ numero_anotacion \in DeedNumbers /\ escritura = ""
  /\ scans = <<>>
  /\ yields = <<>>
  /\ certificado_files = <<>> /\ files_read = 0 /\ pdf_count = 0 /\ reports = <<>>
  /\ pending = <<>> /\ returned = <<>> /\ other = NoContext /\ evaluated = {}

\* lines 567-613: a call of extract_escritura_from_anotacion
Scan ==
  /\ pc = "deed"
  /\ escritura' = extract_escritura_from_anotacion(pdf_text, numero_anotacion)
  /\ pc' = "scanned"
  /\ UNCHANGED <<callVars, appVars, inputVars, folioVars, lines, i, mapVars, introVars, innerVars,
                 oficina_registro, anotacion_to_escritura, property_data, not_found, row,
                 numero_anotacion, scans, yields>>

NextDeed == Scan

SpecDeed == InitDeed /\ [][NextDeed]_vars

(***************************************************************************)
(* extract_properties_from_pdf alone, on an introduction put together from *)
(* its parts and the lines after it                                        *)
(***************************************************************************)
Numbers == <<"3", "1234">>
FolioNumbers == <<"19", "230510">>
Separators == <<" : ", " - ", ".", "..", " : - ", "">>
Descriptions == <<"TORRE 9", "APTO 0129 - TORRE 8", "apto 12", "TORRE 8, LOCAL 2", "SNR">>
TailLines == <<"4 -> 19 : LOCAL 2", "PISO 2", "ANOTACION: Nro 003">>

IntroductionLine(n, f, sep, d) == n \o " -> " \o f \o sep \o d

RECURSIVE WithTail(_, _)
WithTail(line, pick) ==
  IF Len(pick) = 0 THEN line ELSE WithTail(line \o "\n" \o TailLines[pick[1]], Tail(pick))

InitSeg ==
  /\ matriculas_text = ""
  /\ \E n \in 1..Len(Numbers), f \in 1..Len(FolioNumbers), sep \in 1..Len(Separators),
        d \in 1..Len(Descriptions), pick \in Picks(TailLines, 0, MaxTail) :
       pdf_text = WithTail(IntroductionLine(Numbers[n], FolioNumbers[f], Separators[sep],
                                            Descriptions[d]), pick)
  /\ pc = "properties"
  /\ Blank

NextSeg ==
  \/ Begin
  \/ OuterSkip
  \/ OuterDuplicate
  \/ OuterBegin
  \/ InnerContinue
  \/ InnerExit
  \/ OuterReturn

SpecSeg == InitSeg /\ [][NextSeg]_vars

(***************************************************************************)
(* extract_properties_from_pdf on one introduction whose description ends  *)
(* in marks, numbers or boilerplate, between the lines of a page break     *)
(***************************************************************************)
CleanHeads == <<"", "Pagina 1 de 2\n">>
CleanIntroduction == "3 -> 19 : "
CleanBodies == <<"LOTE 2", "LOTE 2 ETAPA", "TORRE 9 OFICINA  DE REGISTRO DE CALI">>
CleanEndings ==
  <<"", " -", " -,", " - 100-25", "-", " - = = =", " OFICINA DE REGISTRO DE CALI",
    " La validez de este documento">>
CleanTails == <<"La validez de este documento", "PISO 2", "4 -> 19 : LOCAL 2">>

CleanText(head, body, ending, pick) ==
  head \o CleanIntroduction \o body \o ending
       \o (IF Len(pick) = 0 THEN "" ELSE "\n" \o LinesOf(CleanTails, pick))

InitClean ==
  /\ matriculas_text = ""
  /\ \E h \in 1..Len(CleanHeads), b \in 1..Len(CleanBodies), e \in 1..Len(CleanEndings),
        pick \in Picks(CleanTails, 0, MaxTail) :
       pdf_text = CleanText(CleanHeads[h], CleanBodies[b], CleanEndings[e], pick)
  /\ pc = "properties"
  /\ Blank

NextClean ==
  \/ Begin
  \/ OuterSkip
  \/ OuterDuplicate
  \/ OuterBegin
  \/ InnerContinue
  \/ InnerExit
  \/ OuterReturn

SpecClean == InitClean /\ [][NextClean]_vars

(***************************************************************************)
(* extract_oficina_registro alone, on a text put together from what comes  *)
(* before the anchor phrase, the anchor phrase, a gap, a name and what     *)
(* follows the name                                                        *)
(***************************************************************************)
first_page_window == 10000
oficina_length_limit == 200
LongNameLength == 300

\* n copies of the character c
RECURSIVE Repeat(_, _)
Repeat(c, n) ==
  IF n = 0 THEN ""
  ELSE LET half == Repeat(c, n \div 2)
       IN half \o half \o (IF n % 2 = 1 THEN c ELSE "")

oficina_anchor == "OFICINA DE REGISTRO DE INSTRUMENTOS PUBLICOS DE"
OficinaPads == <<"", "TEXTO PREVIO ", Repeat("X", first_page_window + 1)>>
OficinaGaps == <<" ", "\n", "\n\n">>
OficinaNames ==
  <<"MEDELLIN NORTE", "CALI", "CERTIFICADO DE TRADICION", "MATRICULA INMOBILIARIA",
    Repeat("A", LongNameLength)>>
OficinaStops == <<"", " ORIP SUPERINTENDENCIA", " CERTIFICADO DE TRADICION", "\nCALI">>

OficinaText(pad, gap, name, stop) == pad \o oficina_anchor \o gap \o name \o stop

InitOficina ==
  /\ matriculas_text = ""
  /\ \E p \in 1..Len(OficinaPads), g \in 1..Len(OficinaGaps), n \in 1..Len(OficinaNames),
        s \in 1..Len(OficinaStops) :
       pdf_text = OficinaText(OficinaPads[p], OficinaGaps[g], OficinaNames[n], OficinaStops[s])
  /\ pc = "oficina"
  /\ Blank

NextOficina == Oficina

SpecOficina == InitOficina /\ [][NextOficina]_vars

(***************************************************************************)
(* app.py: the handler of the button Procesar, lines 150-191 and 561-562   *)
(***************************************************************************)
MaxFiles == 2

\* (\d+[A-Z]?)-(\d+)
app_folio_pattern == <<Grp(1, <<D1, Opt(<<In(AZ)>>)>>), Lit("-"), Grp(2, <<D1>>)>>

error(text) == [level |-> "error", text |-> text]
warning(text) == [level |-> "warning", text |-> text]
\* lines 152, 154, 164, 184, 188 and 562
no_matriculas == error("Por favor ingresa el contenido de matrículas")
no_files == error("Por favor sube al menos un archivo certificado PDF")
no_folios == error("No se encontraron folios en el formato esperado")
no_text == error("No se pudo extraer texto de los PDFs")
some_files_empty == warning("Algunos archivos pueden estar vacíos o protegidos")
processing_failed == error("Error al procesar: too many values to unpack (expected 2)")

\* a variant in which only a text of no characters counts as without text
no_characters(text) == text = ""

\* not text.strip()
is_blank(text) == Strip(text) = ""

\* line 183
nothing_extracted(text) == is_blank(text)

\* lines 171-181: the text of the files from the k-th on, each followed by "\n\n", and how
\* many of them gave text
RECURSIVE read_files(_, _, _, _)
read_files(files, k, text, count) ==
  IF k > Len(files) THEN [pdf_text |-> text, pdf_count |-> count]
  ELSE IF files[k] # "" THEN read_files(files, k + 1, text \o files[k] \o "\n\n", count + 1)
       ELSE read_files(files, k + 1, text, count)

MatriculasInputs ==
  {"", " \n", "176-19", "51N-33 x", "01N - 5537580", "176 -19", "sin folios", "1a-2"}
FileTexts == <<"", " \n", "3 -> 19 : TORRE 9", "ANOTACION: Nro 003">>

InitApp ==
  /\ matriculas_text \in MatriculasInputs
  /\ pdf_text = ""
  /\ certificado_files \in
       {[n \in 1..Len(pick) |-> FileTexts[pick[n]]] : pick \in Picks(FileTexts, 0, MaxFiles)}
  /\ pc = "button"
  /\ pending = <<>>
  /\ BlankRun

\* lines 151-152
ProcesarNoMatriculas ==
  /\ pc = "button"
  /\ is_blank(matriculas_text)
  /\ reports' = Append(reports, no_matriculas)
  /\ pc' = "end"
  /\ UNCHANGED <<callVars, inputVars, folioVars, lines, i, mapVars, introVars, innerVars,
                 oficina_registro, rowVars, yields, certificado_files, files_read, pdf_count>>

\* lines 153-154
ProcesarNoFiles ==
  /\ pc = "button"
  /\ ~is_blank(matriculas_text)
  /\ Len(certificado_files) = 0
  /\ reports' = Append(reports, no_files)
  /\ pc' = "end"
  /\ UNCHANGED <<callVars, inputVars, folioVars, lines, i, mapVars, introVars, innerVars,
                 oficina_registro, rowVars, yields, certificado_files, files_read, pdf_count>>

\* lines 160-165: st.error and st.stop
ProcesarNoFolios ==
  /\ pc = "button"
  /\ ~is_blank(matriculas_text)
  /\ Len(certificado_files) # 0
  /\ FindAll(app_folio_pattern, matriculas_text, FALSE) = <<>>
  /\ reports' = Append(reports, no_folios)
  /\ pc' = "stopped"
  /\ UNCHANGED <<callVars, inputVars, folioVars, lines, i, mapVars, introVars, innerVars,
                 oficina_registro, rowVars, yields, certificado_files, files_read, pdf_count>>

\* lines 160-181
ProcesarRead ==
  /\ pc = "button"
  /\ ~is_blank(matriculas_text)
  /\ Len(certificado_files) # 0
  /\ FindAll(app_folio_pattern, matriculas_text, FALSE) # <<>>
  /\ LET r == read_files(certificado_files, 1, "", 0)
     IN /\ pdf_text' = r.pdf_text
        /\ pdf_count' = r.pdf_count
  /\ files_read' = Len(certificado_files)
  /\ pc' = "read"
  /\ UNCHANGED <<callVars, matriculas_text, folioVars, lines, i, mapVars, introVars, innerVars,
                 oficina_registro, rowVars, yields, certificado_files, reports>>

\* lines 183-185: st.error and st.stop
ProcesarNoText ==
  /\ pc = "read"
  /\ nothing_extracted(pdf_text)
  /\ reports' = Append(reports, no_text)
  /\ pc' = "stopped"
  /\ UNCHANGED <<callVars, inputVars, folioVars, lines, i, mapVars, introVars, innerVars,
                 oficina_registro, rowVars, yields, certificado_files, files_read, pdf_count>>

\* lines 187-191 and 561-562: process_properties returns three values and line 191 unpacks
\* two, which raises ValueError whatever the values are; the handler of line 561 reports it
ProcesarRun ==
  /\ pc = "read"
  /\ ~nothing_extracted(pdf_text)
  /\ reports' = (IF pdf_count < Len(certificado_files) THEN Append(reports, some_files_empty)
                 ELSE reports) \o <<processing_failed>>
  /\ pc' = "end"
  /\ UNCHANGED <<callVars, inputVars, folioVars, lines, i, mapVars, introVars, innerVars,
                 oficina_registro, rowVars, yields, certificado_files, files_read, pdf_count>>

NextApp ==
  \/ ProcesarNoMatriculas
  \/ ProcesarNoFiles
  \/ ProcesarNoFolios
  \/ ProcesarRead
  \/ ProcesarNoText
  \/ ProcesarRun

SpecApp == InitApp /\ [][NextApp]_vars

(***************************************************************************)
(* extract_properties_from_pdf called several times in one process, each   *)
(* call after the one before has returned                                  *)
(***************************************************************************)
MaxCalls == 3
CallTexts ==
  <<"3 -> 19 : TORRE 9\nPISO 2\n4 -> 19 : LOCAL 2",
    "SNR\n5 -> 19 : LOCAL 7",
    "4 -> 27 : LOCAL 1\n\n3 -> 19 : APTO 1",
    "">>

InitCalls ==
  /\ matriculas_text = ""
  /\ \E pick \in Picks(CallTexts, 1, MaxCalls) :
       /\ pdf_text = CallTexts[pick[1]]
       /\ pending = [n \in 1..(Len(pick) - 1) |-> CallTexts[pick[n + 1]]]
  /\ pc = "properties"
  /\ certificado_files = <<>>
  /\ BlankRun

\* line 510: the call returns its two maps, and the caller makes the next call
CallAgain ==
  /\ pc = "oficina"
  /\ returned' = Append(returned, [input |-> pdf_text,
                                   folio_to_property |-> folio_to_property,
                                   folio_to_anotacion |-> folio_to_anotacion])
  /\ IF pending # <<>>
     THEN /\ pdf_text' = Head(pending)
          /\ pending' = Tail(pending)
          /\ pc' = "properties"
     ELSE /\ pc' = "over"
          /\ UNCHANGED <<pdf_text, pending>>
  /\ UNCHANGED <<matriculas_text, folioVars, lines, i, mapVars, introVars, innerVars,
                 oficina_registro, rowVars, yields, appVars, other, evaluated>>

NextCalls ==
  \/ Begin
  \/ OuterSkip
  \/ OuterDuplicate
  \/ OuterBegin
  \/ InnerContinue
  \/ InnerExit
  \/ OuterReturn
  \/ CallAgain

SpecCalls == InitCalls /\ [][NextCalls]_vars

(***************************************************************************)
(* process_properties called on two inputs: each alone, one call after the *)
(* other, and then both at once, in two threads that take turns after any  *)
(* step                                                                    *)
(***************************************************************************)
PairInputs ==
  <<[matriculas_text |-> "1-27\n2-19\n3-27\n4-5",
     pdf_text |-> "3 -> 19 : TORRE 9\nPISO 2\n3 -> 27 : LOCAL 1\n4 -> 19 : LOCAL 2\n"
                    \o "ANOTACION: Nro 003 Doc: ESCRITURA 7 DEL 1-2-2000"],
    [matriculas_text |-> "9-19",
     pdf_text |-> "3 -> 19 : LOCAL 7\nANOTACION: Nro 003 Doc: ESCRITURA 8 DE 03/04/2001"],
    [matriculas_text |-> "9-27 9-19",
     pdf_text |-> "OFICINA DE REGISTRO DE INSTRUMENTOS PUBLICOS DE CALI\n3 -> 27 : APTO 1"]>>

\* the locals of the call that is running
context ==
  [matriculas_text |-> matriculas_text, pdf_text |-> pdf_text, pc |-> pc,
   folio_to_circulo |-> folio_to_circulo, folios |-> folios, lines |-> lines, i |-> i,
   folio_to_property |-> folio_to_property, folio_to_anotacion |-> folio_to_anotacion,
   num_before |-> num_before, folio |-> folio, property_parts |-> property_parts, j |-> j,
   lines_read |-> lines_read, consecutive_headers |-> consecutive_headers,
   is_incomplete |-> is_incomplete, oficina_registro |-> oficina_registro,
   anotacion_to_escritura |-> anotacion_to_escritura, property_data |-> property_data,
   not_found |-> not_found, row |-> row, numero_anotacion |-> numero_anotacion,
   escritura |-> escritura]

\* the locals of a call that has just been made
new_call(input) ==
  [matriculas_text |-> input.matriculas_text, pdf_text |-> input.pdf_text, pc |-> "folios",
   folio_to_circulo |-> EmptyDict, folios |-> <<>>, lines |-> <<>>, i |-> 0,
   folio_to_property |-> EmptyDict, folio_to_anotacion |-> EmptyDict,
   num_before |-> "", folio |-> "", property_parts |-> <<>>, j |-> 0,
   lines_read |-> 0, consecutive_headers |-> 0,
   is_incomplete |-> FALSE, oficina_registro |-> "",
   anotacion_to_escritura |-> EmptyDict, property_data |-> <<>>,
   not_found |-> <<>>, row |-> 0, numero_anotacion |-> "", escritura |-> ""]

\* all the locals but the deed cache become those of c
ResumeButCache(c) ==
  /\ matriculas_text' = c.matriculas_text /\ pdf_text' = c.pdf_text /\ pc' = c.pc
  /\ folio_to_circulo' = c.folio_to_circulo /\ folios' = c.folios
  /\ lines' = c.lines /\ i' = c.i
  /\ folio_to_property' = c.folio_to_property /\ folio_to_anotacion' = c.folio_to_anotacion
  /\ num_before' = c.num_before /\ folio' = c.folio
  /\ SetInner(c)
  /\ oficina_registro' = c.oficina_registro
  /\ property_data' = c.property_data /\ not_found' = c.not_found /\ row' = c.row
  /\ numero_anotacion' = c.numero_anotacion /\ escritura' = c.escritura

\* the call c runs on
Resume(c) ==
  /\ ResumeButCache(c)
  /\ anotacion_to_escritura' = c.anotacion_to_escritura

InitPair ==
  /\ \E a, b \in 1..Len(PairInputs) :
       /\ a < b
       /\ matriculas_text = PairInputs[a].matriculas_text
       /\ pdf_text = PairInputs[a].pdf_text
       /\ pending = <<PairInputs[b]>>
  /\ pc = "folios"
  /\ certificado_files = <<>>
  /\ BlankRun

\* line 703: the call returns its three values
CallReturn ==
  /\ pc = "done"
  /\ returned' = Append(returned, [input |-> [matriculas_text |-> matriculas_text,
                                              pdf_text |-> pdf_text],
                                   property_data |-> property_data,
                                   not_found |-> not_found,
                                   oficina_registro |-> oficina_registro])
  /\ pc' = "returned"
  /\ UNCHANGED <<inputVars, folioVars, lines, i, mapVars, introVars, innerVars,
                 oficina_registro, rowVars, yields, appVars, pending, other, evaluated>>

\* the next call, made alone after the call before has returned
NextCall ==
  /\ pc = "returned" /\ other = NoContext
  /\ pending # <<>>
  /\ matriculas_text' = Head(pending).matriculas_text
  /\ pdf_text' = Head(pending).pdf_text
  /\ pending' = Tail(pending)
  /\ pc' = "folios"
  /\ UNCHANGED <<folioVars, lines, i, mapVars, introVars, innerVars, oficina_registro,
                 rowVars, yields, appVars, returned, other, evaluated>>

\* the two calls made again, at once: one runs and the other waits for its turn
StartPair ==
  /\ pc = "returned" /\ other = NoContext
  /\ pending = <<>> /\ Len(returned) = 2
  /\ Resume(new_call(returned[1].input))
  /\ other' = new_call(returned[2].input)
  /\ UNCHANGED <<scans, yields, appVars, pending, returned, evaluated>>

\* a variant in which the two calls share one deed cache
SwitchSharingCache ==
  /\ other # NoContext
  /\ other.pc # "returned"
  /\ ResumeButCache(other)
  /\ other' = context
  /\ UNCHANGED <<anotacion_to_escritura, scans, yields, appVars, pending, returned, evaluated>>

\* the thread that runs gives way to the other one, whose call is not over
Switch ==
  /\ other # NoContext
  /\ other.pc # "returned"
  /\ Resume(other)
  /\ other' = context
  /\ UNCHANGED <<scans, yields, appVars, pending, returned, evaluated>>

NextPair ==
  \/ ExtractFolios
  \/ Begin
  \/ OuterSkip
  \/ OuterDuplicate
  \/ OuterBegin
  \/ InnerContinue
  \/ InnerExit
  \/ OuterReturn
  \/ Oficina
  \/ RowScan
  \/ RowCached
  \/ RowNotFound
  \/ Return
  \/ CallReturn
  \/ NextCall
  \/ StartPair
  \/ Switch

SpecPair == InitPair /\ [][NextPair]_vars

(***************************************************************************)
(* extract_properties_from_pdf alone, on an introduction and the lines     *)
(* after it: continuations, boilerplate, empty lines, other introductions  *)
(***************************************************************************)
MaxAssembly == 3
FirstLines == <<"3 -> 19 : TORRE", "4 -> 27 : LOCAL 1", "3 -> 19 : SNR">>
AssemblyLines == <<"3 -> 19 : TORRE", "4 -> 27 : LOCAL 1", "3 -> 19 : SNR", "PISO 2", "SNR", "">>

InitAssembly ==
  /\ matriculas_text = ""
  /\ \E first \in 1..Len(FirstLines), pick \in Picks(AssemblyLines, 0, MaxAssembly) :
       pdf_text = JoinLines(<<FirstLines[first]>>
                            \o [n \in 1..Len(pick) |-> AssemblyLines[pick[n]]])
  /\ pc = "properties"
  /\ Blank

NextAssembly ==
  \/ Begin
  \/ OuterSkip
  \/ OuterDuplicate
  \/ OuterBegin
  \/ InnerContinue
  \/ InnerExit
  \/ OuterReturn

SpecAssembly == InitAssembly /\ [][NextAssembly]_vars

\* the function runs on until it returns. This is weak fairness of NextAssembly, written
\* out: WF_vars(A) is []<>~ENABLED <<A>>_vars \/ []<><<A>>_vars, and a step of the function
\* can be taken exactly when it has not returned.
FairAssembly ==
  SpecAssembly /\ ([]<>(pc = "oficina") \/ []<><<NextAssembly>>_vars)

(***************************************************************************)
(* extract_properties_from_pdf alone, on a description followed by a run   *)
(* of boilerplate lines and what comes after the run                       *)
(***************************************************************************)
MaxBoilerplate == 6
LongIncomplete == "APARTAMENTO 101 UBICADO EN EL PRIMER PISO DE LA TORRE"
LinesBefore == {<<LongIncomplete>>, <<"TORRE 9">>, <<"TORRE">>, <<"TORRE 9", "PISO 2">>}
LinesAfter == {<<"PISO 3">>, <<"4 -> 27 : LOCAL 1">>}
BoilerplateLine == "SNR"

InitBoilerplate ==
  /\ matriculas_text = ""
  /\ \E before \in LinesBefore, k \in 0..MaxBoilerplate, after \in LinesAfter :
       pdf_text = "3 -> 19 : " \o JoinLines(before \o [n \in 1..k |-> BoilerplateLine]
                                             \o after)
  /\ pc = "properties"
  /\ Blank

NextBoilerplate ==
  \/ Begin
  \/ OuterSkip
  \/ OuterBegin
  \/ InnerContinue
  \/ InnerExit
  \/ OuterReturn

SpecBoilerplate == InitBoilerplate /\ [][NextBoilerplate]_vars

(***************************************************************************)
(* extract_properties_from_pdf alone, on a complete description followed   *)
(* by a boilerplate line and the lines the look ahead reads                *)
(***************************************************************************)
MaxWindow == 3
LongComplete == LongIncomplete \o " 2"
WindowLines == <<"", "PISO 5", "4 -> 27 : LOCAL 1", "4 -> 27 : SNR">>

InitLookahead ==
  /\ matriculas_text = ""
  /\ \E pick \in Picks(WindowLines, 0, MaxWindow) :
       pdf_text = JoinLines(<<"3 -> 19 : " \o LongComplete, BoilerplateLine>>
                            \o [n \in 1..Len(pick) |-> WindowLines[pick[n]]])
  /\ pc = "properties"
  /\ Blank

NextLookahead ==
  \/ Begin
  \/ OuterSkip
  \/ OuterDuplicate
  \/ OuterBegin
  \/ InnerContinue
  \/ InnerExit
  \/ OuterReturn

SpecLookahead == InitLookahead /\ [][NextLookahead]_vars

(***************************************************************************)
(* extract_properties_from_pdf alone, on a description followed by many    *)
(* continuation lines                                                      *)
(***************************************************************************)
MaxMerged == 22
ContinuationLine == "DE 2"
LinesAtEnd == {<<>>, <<"4 -> 19 : LOCAL 2">>}

InitBudget ==
  /\ matriculas_text = ""
  /\ \E n \in (MaxMerged - 3)..MaxMerged, after \in LinesAtEnd :
       pdf_text = JoinLines(<<"3 -> 19 : TORRE">> \o [k \in 1..n |-> ContinuationLine]
                            \o after)
  /\ pc = "properties"
  /\ Blank

NextBudget ==
  \/ Begin
  \/ OuterSkip
  \/ OuterDuplicate
  \/ OuterBegin
  \/ InnerContinue
  \/ InnerExit
  \/ OuterReturn

SpecBudget == InitBudget /\ [][NextBudget]_vars

(***************************************************************************)
(* The properties of the folio list parser                                 *)
(***************************************************************************)
\* the folio and the circle of the k-th match of the folio pattern in the folio list
matched_folio(ms, k) == Group(matriculas_text, ms[k], 2)
matched_circulo(ms, k) == Group(matriculas_text, ms[k], 1)
\* the first match that has the folio f
first_occurrence(ms, f) ==
  CHOOSE k \in 1..Len(ms) :
    matched_folio(ms, k) = f /\ \A k2 \in 1..(k - 1) : matched_folio(ms, k2) # f

\* folios is the matched folios, each once, in the order of their first occurrence
in_first_occurrence_order(ms) ==
  /\ \A a, b \in 1..Len(folios) : a # b => folios[a] # folios[b]
  /\ {folios[a] : a \in 1..Len(folios)} = {matched_folio(ms, k) : k \in 1..Len(ms)}
  /\ \A a, b \in 1..Len(folios) :
       a < b => first_occurrence(ms, folios[a]) < first_occurrence(ms, folios[b])

\* C1: after extract_folios_from_matriculas, folios holds each matched folio exactly
\* once in the order of first occurrence, and folio_to_circulo has exactly those
\* folios as keys, each with the circle of its first occurrence.
C1_FoliosOnceFirstCircle ==
  pc = "properties" =>
    LET ms == FindAll(folio_pattern, matriculas_text, FALSE)
    IN /\ in_first_occurrence_order(ms)
       /\ DOMAIN folio_to_circulo = {folios[a] : a \in 1..Len(folios)}
       /\ \A f \in DOMAIN folio_to_circulo :
            folio_to_circulo[f] = matched_circulo(ms, first_occurrence(ms, f))

\* a folio is matched twice with different circles, and another folio is matched
C1_Witness ==
  /\ pc = "properties"
  /\ Len(folios) >= 2
  /\ LET ms == FindAll(folio_pattern, matriculas_text, FALSE)
     IN \E a, b \in 1..Len(ms) :
          /\ a < b
          /\ matched_folio(ms, a) = matched_folio(ms, b)
          /\ matched_circulo(ms, a) # matched_circulo(ms, b)

(***************************************************************************)
(* The properties of the rows                                              *)
(***************************************************************************)
\* the folio of the k-th row has a description
row_found(k) == folios[k] \in DOMAIN folio_to_property

\* C3: process_properties returns one row per distinct folio of the folio list, in
\* the order of first occurrence, with the folio's circle and, when the folio has a
\* description, that description; a folio that is not listed has no row.
C3_OneRowPerListedFolio ==
  pc = "done" =>
    /\ in_first_occurrence_order(FindAll(folio_pattern, matriculas_text, FALSE))
    /\ Len(property_data) = Len(folios)
    /\ \A k \in 1..Len(property_data) :
         /\ property_data[k][3] = folios[k]
         /\ property_data[k][2] = folio_to_circulo[folios[k]]
         /\ row_found(k) => property_data[k][1] = folio_to_property[folios[k]]

\* a run with a row of a folio that has a description, and with a folio that the
\* certificate introduces and the list does not have
C3_Witness ==
  /\ pc = "done"
  /\ Len(property_data) >= 2
  /\ \E k \in 1..Len(folios) : row_found(k)
  /\ \E f \in DOMAIN folio_to_property : \A k \in 1..Len(folios) : folios[k] # f

\* C4: a listed folio without description is in not_found, in the list's order, its
\* row is ("NO ENCONTRADO", circle, folio, ""), and no deed is looked up for it; a
\* folio with a description is not in not_found.
C4_NotFoundPropagation ==
  pc \in {"rows", "done"} =>
    /\ not_found = SelectSeq(SubSeq(folios, 1, row), LAMBDA f : f \notin DOMAIN folio_to_property)
    /\ \A k \in 1..Len(property_data) :
         ~row_found(k) =>
           property_data[k] = <<"NO ENCONTRADO", Get(folio_to_circulo, folios[k]), folios[k], "">>
    /\ \A k \in 1..Len(scans) : scans[k].folio \in DOMAIN folio_to_property

\* a run with a folio that has no description and a folio that has one
C4_Witness ==
  /\ pc = "done"
  /\ Len(not_found) >= 1
  /\ Len(not_found) < Len(folios)

\* C5: in one run extract_escritura_from_anotacion is called at most once for an
\* annotation number, also when the call returned the empty string.
C5_OneScanPerAnnotation ==
  \A a, b \in 1..Len(scans) :
    a # b => scans[a].numero_anotacion # scans[b].numero_anotacion

\* two listed folios with a description share an annotation number whose deed is
\* empty, and the text was scanned once
C5_Witness ==
  /\ pc = "done"
  /\ Len(scans) = 1
  /\ scans[1].escritura = ""
  /\ \E a, b \in 1..Len(folios) :
       /\ a # b /\ row_found(a) /\ row_found(b)
       /\ folio_to_anotacion[folios[a]] = folio_to_anotacion[folios[b]]

\* C6: the deed of the row of a folio with a description is what
\* extract_escritura_from_anotacion returns for the text and the folio's annotation
\* number, so the rows of folios that share an annotation number have the same deed.
C6_CacheTransparent ==
  pc \in {"rows", "done"} =>
    /\ \A k \in 1..Len(property_data) :
         row_found(k) =>
           property_data[k][4] =
             extract_escritura_from_anotacion(pdf_text, folio_to_anotacion[folios[k]])
    /\ \A a, b \in 1..Len(property_data) :
         (row_found(a) /\ row_found(b)
          /\ folio_to_anotacion[folios[a]] = folio_to_anotacion[folios[b]])
         => property_data[a][4] = property_data[b][4]

\* two rows share an annotation number whose deed is not empty; one came from the cache
C6_Witness ==
  /\ pc = "done"
  /\ Len(scans) = 1
  /\ scans[1].escritura # ""
  /\ \E a, b \in 1..Len(property_data) :
       /\ a # b /\ row_found(a) /\ row_found(b)
       /\ property_data[a][4] = scans[1].escritura
       /\ property_data[b][4] = scans[1].escritura

(***************************************************************************)
(* The properties of the segmenter                                         *)
(***************************************************************************)
\* the assemblies of introductions of the folio f, as indices of yields
entries_of(f) == {k \in 1..Len(yields) : yields[k].folio = f}
\* the assemblies of introductions of f that yielded a description
stored_entries_of(f) == {k \in entries_of(f) : yields[k].property_name # ""}
\* the least member of a set of numbers that is not empty
least(S) == CHOOSE k \in S : \A q \in S : k <= q
\* the lines of the text that introduce the folio f, as offsets
introductions_of(f) ==
  {k \in 0..(Len(lines) - 1) :
     folio_introduction(lines[k + 1]).ok /\ folio_introduction(lines[k + 1]).folio = f}

\* C2 as the specification states it: the maps hold for a folio what the first
\* introduction of the folio yields.
C2_FirstIntroductionWins ==
  \A f \in DOMAIN folio_to_property :
    /\ yields[least(entries_of(f))].line = least(introductions_of(f))
    /\ folio_to_property[f] = yields[least(entries_of(f))].property_name
    /\ folio_to_anotacion[f] = yields[least(entries_of(f))].numero_anotacion

\* C2, amended: the maps hold for a folio what the first introduction with a
\* description that is not empty yields; every introduction of the folio before it
\* was assembled and yielded nothing, and no introduction of the folio after it is
\* assembled, so none replaces or extends what is stored.
C2_FirstStoredIntroductionWins ==
  /\ \A f \in DOMAIN folio_to_property :
       /\ stored_entries_of(f) # {}
       /\ folio_to_property[f] = yields[least(stored_entries_of(f))].property_name
       /\ folio_to_anotacion[f] = yields[least(stored_entries_of(f))].numero_anotacion
       /\ \A k \in entries_of(f) : k <= least(stored_entries_of(f))
       /\ \A k \in introductions_of(f) :
            k < yields[least(stored_entries_of(f))].line
            => \E q \in entries_of(f) : yields[q].line = k
  /\ \A k \in 1..Len(yields) :
       /\ yields[k].line \in introductions_of(yields[k].folio)
       /\ yields[k].property_name # "" => yields[k].folio \in DOMAIN folio_to_property

\* the text introduces a folio twice, the first introduction is stored and the
\* second one was passed over
C2_Witness ==
  /\ pc = "oficina"
  /\ \E f \in DOMAIN folio_to_property :
       /\ Cardinality(introductions_of(f)) >= 2
       /\ Cardinality(entries_of(f)) = 1
       /\ yields[least(entries_of(f))].line = least(introductions_of(f))

\* the separators of the claim and the descriptions that are complete and clean
SeparatorVariants == {" : ", " - ", ".", "..", " : - "}
is_complete(d) == ~looks_incomplete(d) /\ clean_property_name(<<d>>) = d

\* C9: of a text that is the one line "N -> F<sep>D", with one of the five
\* separators and a complete description D, the segmenter stores D for the folio F
\* and N padded with zeros to three digits as its annotation number.
C9_SeparatorVariants ==
  pc = "oficina" =>
    \A n \in 1..Len(Numbers), f \in 1..Len(FolioNumbers), sep \in SeparatorVariants,
       d \in 1..Len(Descriptions) :
      (pdf_text = IntroductionLine(Numbers[n], FolioNumbers[f], sep, Descriptions[d])
       /\ is_complete(Descriptions[d]))
      => /\ FolioNumbers[f] \in DOMAIN folio_to_property
         /\ folio_to_property[FolioNumbers[f]] = Descriptions[d]
         /\ FolioNumbers[f] \in DOMAIN folio_to_anotacion
         /\ folio_to_anotacion[FolioNumbers[f]] = ZFill(Numbers[n], anotacion_width)

\* the segmenter has stored the description of a line whose separator is " : - "
C9_Witness ==
  /\ pc = "oficina"
  /\ \E n \in 1..Len(Numbers), f \in 1..Len(FolioNumbers), d \in 1..Len(Descriptions) :
       /\ pdf_text = IntroductionLine(Numbers[n], FolioNumbers[f], " : - ", Descriptions[d])
       /\ is_complete(Descriptions[d])
       /\ FolioNumbers[f] \in DOMAIN folio_to_property

\* the keywords of the concatenated form
Keywords ==
  {"APTO", "APARTAMENTO", "TORRE", "LOCAL", "DEPOSITO", "PARQUEADERO", "ETAPA", "PISO",
   "BODEGA", "OFICINA", "LOTE", "MANZANA", "CESION"}
starts_with_keyword(d) ==
  \E kw \in Keywords : Len(d) >= Len(kw) /\ UpperStr(SubSeq(d, 1, Len(kw))) = kw

\* C10 as the specification states it: of the one line "N -> F<KW>...", where a
\* keyword in any letter case follows the digits of F at once, the segmenter stores
\* for F the whole text from the keyword on.
C10_KeywordFallback ==
  pc = "oficina" =>
    \A n \in 1..Len(Numbers), f \in 1..Len(FolioNumbers), d \in 1..Len(Descriptions) :
      (pdf_text = IntroductionLine(Numbers[n], FolioNumbers[f], "", Descriptions[d])
       /\ starts_with_keyword(Descriptions[d]))
      => /\ FolioNumbers[f] \in DOMAIN folio_to_property
         /\ folio_to_property[FolioNumbers[f]] = clean_property_name(<<Descriptions[d]>>)

(***************************************************************************)
(* The properties of the deed of an annotation                             *)
(***************************************************************************)
\* the match of re that starts at the position p of the certificate text, any case
match_at(re, p) == M(re, p, NoCaps, Subject(pdf_text, TRUE, FALSE))
\* the positions where a marker of the annotation number n starts, and of any number
marker_positions(n) == {p \in 1..Len(pdf_text) : match_at(anotacion_pattern(n), p).ok}
any_marker_positions == {p \in 1..Len(pdf_text) : match_at(next_anotacion_pattern, p).ok}
\* the block of n: from its first marker to the next marker of any number
block_start(n) == least(marker_positions(n))
block_end(n) ==
  least({q \in any_marker_positions : q > block_start(n)} \cup {Len(pdf_text) + 1})
\* the positions of the citations that lie in lo..hi-1
citations_in(lo, hi) ==
  {p \in lo..(hi - 1) : match_at(escritura_pattern, p).ok /\ match_at(escritura_pattern, p).e <= hi}
citation_at(p) == Strip(Group(pdf_text, match_at(escritura_pattern, p), 1))
\* the text has no marker of n, or the block of n has no citation
deed_absent(n) ==
  \/ marker_positions(n) = {}
  \/ citations_in(block_start(n), block_end(n)) = {}

\* C7: the deed extract_escritura_from_anotacion returns is empty or the first
\* citation, without its label, inside the block that starts at the first marker of
\* the number and ends where the next marker of any number starts.
C7_DeedInsideBlock ==
  pc = "scanned" =>
    \/ escritura = ""
    \/ /\ ~deed_absent(numero_anotacion)
       /\ escritura =
            citation_at(least(citations_in(block_start(numero_anotacion),
                                           block_end(numero_anotacion))))

\* the block of the number is followed by a block that has a citation
C7_Witness ==
  /\ pc = "scanned"
  /\ marker_positions(numero_anotacion) # {}
  /\ citations_in(block_end(numero_anotacion), Len(pdf_text) + 1) # {}

\* C8: when the text has no marker of the annotation number, or the block of the
\* marker has no citation, extract_escritura_from_anotacion returns the empty
\* string, and the row of the folio has an empty deed.
C8_AbsentDeedIsEmpty ==
  /\ \A k \in 1..Len(scans) :
       deed_absent(scans[k].numero_anotacion) => scans[k].escritura = ""
  /\ \A k \in 1..Len(property_data) :
       (row_found(k) /\ deed_absent(folio_to_anotacion[folios[k]]))
       => property_data[k][4] = ""

\* a run with a row whose annotation number has no marker and a row whose marker
\* has no citation in its block
C8_Witness ==
  /\ pc = "done"
  /\ \E a, b \in 1..Len(property_data) :
       /\ row_found(a) /\ row_found(b)
       /\ marker_positions(folio_to_anotacion[folios[a]]) = {}
       /\ marker_positions(folio_to_anotacion[folios[b]]) # {}
       /\ deed_absent(folio_to_anotacion[folios[b]])
       /\ property_data[a][4] = "" /\ property_data[b][4] = ""

(***************************************************************************)
(* The properties of the two maps of the segmenter                         *)
(***************************************************************************)
\* C13: at every point of extract_properties_from_pdf the two maps have the same
\* keys and no stored description is empty; a folio whose introductions all yielded
\* an empty description is in neither map.
C13_MapsAgree ==
  /\ DOMAIN folio_to_property = DOMAIN folio_to_anotacion
  /\ \A f \in DOMAIN folio_to_property : folio_to_property[f] # ""
  /\ \A k \in 1..Len(yields) :
       stored_entries_of(yields[k].folio) = {}
       => /\ yields[k].folio \notin DOMAIN folio_to_property
          /\ yields[k].folio \notin DOMAIN folio_to_anotacion

\* an introduction has yielded an empty description and another one is stored
C13_Witness ==
  /\ pc = "oficina"
  /\ DOMAIN folio_to_property # {}
  /\ \E k \in 1..Len(yields) :
       yields[k].property_name = "" /\ yields[k].folio \notin DOMAIN folio_to_property

\* the text s is decimal digits only
all_digits(s) == \A k \in 1..Len(s) : Ch(s, k) \in Digit
\* the number a text of decimal digits writes
RECURSIVE numeric_value(_)
numeric_value(s) ==
  IF s = "" THEN 0
  ELSE 10 * numeric_value(SubSeq(s, 1, Len(s) - 1))
       + (CHOOSE v \in 0..9 : Ch("0123456789", v + 1) = Ch(s, Len(s)))
\* the introduction that produced the description of the folio f
producer(f) == yields[least(stored_entries_of(f))]

BoilerplatePhrases ==
  {"La validez de este documento", "OFICINA DE REGISTRO", "CERTIFICADO DE TRADICION",
   "MATRICULA INMOBILIARIA", "Certificado generado con el Pin No:"}

has_boilerplate(d) == \E phrase \in BoilerplatePhrases : Contains(d, phrase)

\* C11: no description stored in folio_to_property contains a boilerplate phrase, whether
\* the boilerplate came as lines of its own or inside the introduction line.
C11_NoBoilerplate ==
  \A f \in DOMAIN folio_to_property : ~has_boilerplate(folio_to_property[f])

(***************************************************************************)
(* C12: the trailing hyphen                                                *)
(***************************************************************************)
UnitNouns ==
  {"ETAPA", "PISO", "TORRE", "APARTAMENTO", "LOCAL", "DEPOSITO", "PARQUEADERO", "BODEGA",
   "OFICINA", "LOTE", "MANZANA"}

ends_with(d, x) == Len(d) >= Len(x) /\ SubSeq(d, Len(d) - Len(x) + 1, Len(d)) = x

\* d ends in a unit noun, then a space, then a bare hyphen
ends_in_unit_hyphen(d) == \E noun \in UnitNouns : ends_with(UpperStr(d), noun \o " -")

\* C12: a description that ends in a unit noun and a bare hyphen keeps the hyphen, and
\* every other stored description does not end with a hyphen.
C12_TrailingHyphenRule ==
  /\ \A b \in 1..Len(CleanBodies) :
       /\ pc = "oficina"
       /\ pdf_text = CleanText("", CleanBodies[b], " -", <<>>)
       /\ ends_in_unit_hyphen(CleanBodies[b] \o " -")
       => Get(folio_to_property, "19") = CleanBodies[b] \o " -"
  /\ \A f \in DOMAIN folio_to_property :
       ends_with(folio_to_property[f], "-") => ends_in_unit_hyphen(folio_to_property[f])

(***************************************************************************)
(* C15..C18: the registry office                                           *)
(***************************************************************************)
\* the 0-based offsets of the anchor phrase in text
anchor_offsets(text) ==
  {a \in 0..(Len(text) - Len(oficina_anchor)) :
     SubSeq(text, a + 1, a + Len(oficina_anchor)) = oficina_anchor}

\* the result without the anchor phrase it may begin with
office_name(oficina) ==
  IF Len(oficina) > Len(oficina_anchor)
     /\ SubSeq(oficina, 1, Len(oficina_anchor) + 1) = oficina_anchor \o " "
  THEN SubSeq(oficina, Len(oficina_anchor) + 2, Len(oficina))
  ELSE oficina

ShortPads == {p \in 1..Len(OficinaPads) : Len(OficinaPads[p]) < first_page_window}
PlainNames == {1, 2}
HeadingNames == {3, 4}
SameLineStops == {2, 3}

\* C15: only the first 10,000 characters are looked at: when every anchor phrase starts
\* beyond them the result is empty, and an anchor inside them followed by a newline and a
\* name gives that name.
C15_FirstPageBound ==
  pc = "rows" =>
    /\ (\A a \in anchor_offsets(pdf_text) : a >= first_page_window) => oficina_registro = ""
    /\ \A p \in ShortPads, n \in PlainNames :
         pdf_text = OficinaText(OficinaPads[p], "\n", OficinaNames[n], "")
           => office_name(oficina_registro) = OficinaNames[n]

\* C16: a name followed on its line by ORIP or by a document-type heading is returned as
\* the anchor phrase and the name, without the stop token and without what follows it.
C16_StopMarkers ==
  pc = "rows" =>
    \A p \in ShortPads, n \in PlainNames, s \in SameLineStops :
      pdf_text = OficinaText(OficinaPads[p], " ", OficinaNames[n], OficinaStops[s])
        => oficina_registro = oficina_anchor \o " " \o OficinaNames[n]

\* C17: after an anchor phrase followed by a newline the office is the next non-empty line,
\* cut at the same stop markers, and a next line that starts with a document-type heading is
\* never returned.
C17_NextLineFallback ==
  pc = "rows" =>
    \A p \in ShortPads, g \in {2, 3}, s \in 1..Len(OficinaStops) :
      /\ \A n \in PlainNames :
           pdf_text = OficinaText(OficinaPads[p], OficinaGaps[g], OficinaNames[n], OficinaStops[s])
             => office_name(oficina_registro) = OficinaNames[n]
      /\ \A n \in HeadingNames :
           pdf_text = OficinaText(OficinaPads[p], OficinaGaps[g], OficinaNames[n], OficinaStops[s])
             => office_name(oficina_registro) # OficinaNames[n]

\* C18: the result is never longer than 200 characters, and a name that would be longer
\* gives the empty string.
C18_LengthLimit ==
  /\ Len(oficina_registro) <= oficina_length_limit
  /\ pc = "rows" =>
       \A p \in ShortPads, g \in 1..Len(OficinaGaps), s \in 1..Len(OficinaStops) :
         pdf_text = OficinaText(OficinaPads[p], OficinaGaps[g], OficinaNames[5], OficinaStops[s])
           => oficina_registro = ""

(***************************************************************************)
(* C19: the validation of the folio list                                   *)
(***************************************************************************)
handler_over == pc \in {"end", "stopped"}
\* the run got as far as looking for folios in the list
validation_reached == \E k \in 1..Len(matriculas_text) : Ch(matriculas_text, k) \notin Space

\* C19: the run reports that no folios were found, and stops before a certificate is read,
\* exactly when the folio list has no match of the folio pattern, which allows spaces
\* around the hyphen; extract_folios_from_matriculas then returns an empty map and an empty
\* list.
C19_NoFoliosExactlyWhenNoMatch ==
  handler_over /\ validation_reached /\ Len(certificado_files) > 0 =>
    /\ (reports = <<no_folios>> /\ pc = "stopped" /\ files_read = 0)
         <=> FindAll(folio_pattern, matriculas_text, FALSE) = <<>>
    /\ FindAll(folio_pattern, matriculas_text, FALSE) = <<>>
         => extract_folios_from_matriculas(matriculas_text)
              = [folio_to_circulo |-> EmptyDict, folios |-> <<>>]

(***************************************************************************)
(* C20: certificates without text                                          *)
(***************************************************************************)
\* the certificates have been read and gave no text or only white space
empty_extraction ==
  /\ files_read > 0
  /\ \A k \in 1..Len(pdf_text) : Ch(pdf_text, k) \in Space

\* C20 as stated: certificates without text give a condition of their own that is not fatal:
\* a warning, after which the run goes on.
C20_EmptyExtractionNonFatal ==
  handler_over /\ empty_extraction =>
    /\ \E k \in 1..Len(reports) : reports[k].level = "warning"
    /\ pc # "stopped"

\* C20, amended: certificates without text give the error no_text and nothing else, the run
\* stops there without raising, and no run whose certificates gave text shows that error.
C20_EmptyExtractionStops ==
  /\ handler_over /\ empty_extraction => reports = <<no_text>> /\ pc = "stopped"
  /\ (\E k \in 1..Len(reports) : reports[k] = no_text) => empty_extraction
  /\ handler_over /\ files_read > 0 /\ ~empty_extraction
       => \A k \in 1..Len(reports) : reports[k] # no_text

C20_Witness ==
  /\ pc = "stopped"
  /\ reports = <<no_text>>
  /\ certificado_files = <<"", " \n">>

(***************************************************************************)
(* C21: the segmenter is deterministic                                     *)
(***************************************************************************)
\* C21: two calls of extract_properties_from_pdf on the same text return the same two maps,
\* whatever calls were made before and between them.
C21_SameTextSameMaps ==
  \A a, b \in 1..Len(returned) :
    returned[a].input = returned[b].input
      => /\ returned[a].folio_to_property = returned[b].folio_to_property
         /\ returned[a].folio_to_anotacion = returned[b].folio_to_anotacion

C21_Witness ==
  /\ Len(returned) = 3
  /\ returned[1].input = returned[3].input
  /\ returned[2].input # returned[1].input
  /\ returned[1].folio_to_property # EmptyDict
  /\ DOMAIN returned[2].folio_to_property # DOMAIN returned[1].folio_to_property

(***************************************************************************)
(* C22: two runs at once                                                   *)
(***************************************************************************)
\* C22: a run that takes turns with a run on another input returns the rows, the folios
\* not found and the office it returns alone, and its deed cache holds only what its own
\* text gives and is empty when its rows begin.
C22_RunsIsolated ==
  /\ \A a, b \in 1..Len(returned) :
       returned[a].input = returned[b].input
         => /\ returned[a].property_data = returned[b].property_data
            /\ returned[a].not_found = returned[b].not_found
            /\ returned[a].oficina_registro = returned[b].oficina_registro
  /\ pc \in {"rows", "done", "returned"} =>
       \A n \in DOMAIN anotacion_to_escritura :
         anotacion_to_escritura[n] = extract_escritura_from_anotacion(pdf_text, n)
  /\ pc = "rows" /\ row = 0 => anotacion_to_escritura = EmptyDict

\* both runs returned after taking turns while the deed cache of one held a deed
C22_Witness ==
  /\ Len(returned) = 4
  /\ other # NoContext
  /\ \E k \in 1..Len(other.property_data) : other.property_data[k][4] # ""
  /\ \E k \in 1..Len(property_data) :
       property_data[k][4] # "" /\ property_data[k][4] \notin
         {other.property_data[q][4] : q \in 1..Len(other.property_data)}

(***************************************************************************)
(* C23: the assembly stops at the next introduction                        *)
(***************************************************************************)
\* the introductions after line n, as offsets into lines
introductions_after(n) ==
  {k \in (n + 1)..(Len(lines) - 1) : is_folio_introduction(lines[k + 1])}

\* C23: the assembly of a description never goes past the first line after it that
\* introduces a folio, so that line is in no description but its own, and once the text
\* is read that line was evaluated by the outer loop as an introduction.
C23_StopsAtIntroduction ==
  \A n \in 1..Len(yields) :
    \A k \in introductions_after(yields[n].line) :
      /\ yields[n].j <= k
      /\ pc = "oficina" /\ introductions_after(yields[n].line) \cap 0..(k - 1) = {}
           => k \in evaluated

\* a description of two lines ended at an introduction, which gave its own description
C23_Witness ==
  /\ pc = "oficina"
  /\ \E n \in 1..Len(yields), q \in 1..Len(yields) :
       /\ Len(yields[n].property_parts) = 2
       /\ yields[n].j \in introductions_after(yields[n].line)
       /\ yields[q].line = yields[n].j
       /\ yields[q].folio # yields[n].folio
       /\ yields[q].folio \in DOMAIN folio_to_property

(***************************************************************************)
(* C24: boilerplate after an incomplete description                        *)
(***************************************************************************)
\* the loop is at a boilerplate line that introduces no folio
at_boilerplate ==
  /\ pc = "inner"
  /\ j < Len(lines) /\ lines_read < 20
  /\ ~is_folio_introduction(lines[j + 1])
  /\ is_footer_or_header(Strip(lines[j + 1]))

\* the boilerplate lines one after another that end at line n of the assembly
RECURSIVE boilerplate_run(_)
boilerplate_run(n) ==
  IF n > i /\ ~is_folio_introduction(lines[n + 1]) /\ is_footer_or_header(Strip(lines[n + 1]))
  THEN 1 + boilerplate_run(n - 1)
  ELSE 0

\* the assembly goes on to the next line and merges nothing
line_skipped == pc' = "inner" /\ j' = j + 1 /\ property_parts' = property_parts

\* the assembly is over and its description is what was merged before the line
assembly_stopped ==
  /\ pc' = "outer" /\ i' = j
  /\ yields'[Len(yields')].property_parts = property_parts

\* C24: at a boilerplate line, with a description that looks incomplete and has at least
\* 50 characters, the line is skipped when it is at most the 5th boilerplate line in a
\* row and the assembly stops, with nothing more merged, when it is the 6th.
C24_ToleranceWhenIncomplete ==
  [][at_boilerplate /\ looks_incomplete(JoinSpace(property_parts))
       /\ Len(JoinSpace(property_parts)) >= 50
       => IF boilerplate_run(j) <= 5 THEN line_skipped ELSE assembly_stopped]_vars

\* a continuation after 5 boilerplate lines was merged into the long incomplete description
C24_Witness ==
  /\ pc = "outer"
  /\ \E n \in 1..Len(yields) :
       /\ yields[n].property_parts = <<LongIncomplete, "PISO 3">>
       /\ yields[n].j = 7
       /\ \A k \in 1..5 : lines[k + 1] = BoilerplateLine

(***************************************************************************)
(* C26: boilerplate after a short start                                    *)
(***************************************************************************)
\* C26 as stated: at a boilerplate line, with a description of fewer than 50 characters,
\* the line is skipped whatever the description looks like and however many boilerplate
\* lines came before.
C26_ShortDescriptionSkips ==
  [][at_boilerplate /\ Len(JoinSpace(property_parts)) < 50 => line_skipped]_vars

\* C26: at a boilerplate line, with a description that is only the introduction's own
\* fragment, shorter than 50 characters, the line is skipped whatever the description
\* looks like and however many boilerplate lines came before.
C26_ShortStartSkips ==
  [][at_boilerplate /\ Len(property_parts) = 1 /\ Len(property_parts[1]) < 50
       => line_skipped]_vars

\* a continuation after 6 boilerplate lines was merged into a short complete start
C26_Witness ==
  /\ pc = "outer"
  /\ \E n \in 1..Len(yields) :
       /\ yields[n].property_parts = <<"TORRE 9", "PISO 3">>
       /\ yields[n].j = 8
       /\ \A k \in 1..6 : lines[k + 1] = BoilerplateLine

(***************************************************************************)
(* C25: boilerplate after a complete description                           *)
(***************************************************************************)
\* line k is not empty, is no boilerplate and looks like a continuation, and no line of
\* the window before it introduces a folio
continuation_in_window(k) ==
  /\ Strip(lines[k + 1]) # ""
  /\ ~is_footer_or_header(Strip(lines[k + 1]))
  /\ looks_like_continuation(Strip(lines[k + 1]), JoinSpace(property_parts))
  /\ \A q \in (j + 1)..(k - 1) : ~is_folio_introduction(lines[q + 1])

\* C25: at a boilerplate line j, with a complete description of at least 50 characters,
\* the line is skipped exactly when one of the lines j+1..j+3 is a continuation that no
\* introduction precedes in the window, and the assembly stops at line j otherwise.
C25_LookaheadWhenComplete ==
  [][at_boilerplate /\ ~looks_incomplete(JoinSpace(property_parts))
       /\ Len(JoinSpace(property_parts)) >= 50
       => IF \E k \in (j + 1)..(j + 3) : k < Len(lines) /\ continuation_in_window(k)
          THEN line_skipped ELSE assembly_stopped]_vars

(***************************************************************************)
(* C27: the budget of merged lines                                         *)
(***************************************************************************)
\* C27: a description never has more than 21 parts, its own start and 20 merged lines,
\* and the assembly ends, with that description, as soon as 20 lines are merged.
C27_LookaheadBudget ==
  [][/\ Len(property_parts') <= 21
     /\ pc = "inner" /\ Len(property_parts) = 21
          => pc' = "outer" /\ yields'[Len(yields')].property_parts = property_parts]_vars

\* 20 of 22 continuation lines were merged and the other two were left out
C27_Witness ==
  /\ pc = "oficina"
  /\ Len(lines) >= 23
  /\ \A k \in 1..22 : lines[k + 1] = ContinuationLine
  /\ \E n \in 1..Len(yields) :
       /\ Len(yields[n].property_parts) = 21
       /\ yields[n].j = 21

(***************************************************************************)
(* C28: the segmenter terminates                                           *)
(***************************************************************************)
\* C28: the function returns on every text: every iteration of the outer loop ends with
\* its cursor further on, after an assembly as after a skipped line, and every iteration
\* of the assembly that does not break moves the inner cursor on.
C28_Terminates ==
  /\ <>(pc = "oficina")
  /\ [][/\ pc = "outer" /\ pc' = "outer" => i' > i
        /\ pc = "inner" /\ pc' = "outer" => i' > i
        /\ pc = "inner" /\ pc' = "inner" => j' > j]_vars

\* the function returned after an assembly of several lines and a skipped introduction
C28_Witness ==
  /\ pc = "oficina"
  /\ i > Len(lines)
  /\ \E n \in 1..Len(yields) : yields[n].j > yields[n].line + 2
  /\ \E k \in evaluated : \A n \in 1..Len(yields) : yields[n].line # k

(***************************************************************************)
(* C29: no introduction is lost                                            *)
(***************************************************************************)
\* the lines that introduce a folio, as offsets into lines
introduction_lines == {k \in 0..(Len(lines) - 1) : is_folio_introduction(lines[k + 1])}

\* the assemblies of folio f that gave a description
descriptions_of(f) ==
  {n \in 1..Len(yields) : yields[n].folio = f /\ yields[n].property_name # ""}

\* C29: once the text is read, every line that introduces a folio was evaluated by the
\* outer loop, and was assembled unless its folio was stored by then; a folio is a key
\* exactly when an introduction of it gave a description that is not empty, and what is
\* stored for it is the description and the annotation number of the first such one.
C29_NoIntroductionLost ==
  pc = "oficina" =>
    /\ \A k \in introduction_lines :
         /\ k \in evaluated
         /\ \/ \E n \in 1..Len(yields) : yields[n].line = k
            \/ \E n \in descriptions_of(folio_introduction(lines[k + 1]).folio) :
                 yields[n].line < k
    /\ \A k \in introduction_lines :
         folio_introduction(lines[k + 1]).folio \in DOMAIN folio_to_property
           <=> descriptions_of(folio_introduction(lines[k + 1]).folio) # {}
    /\ \A f \in DOMAIN folio_to_property :
         \E n \in descriptions_of(f) :
           /\ \A q \in descriptions_of(f) : yields[n].line <= yields[q].line
           /\ folio_to_property[f] = yields[n].property_name
           /\ folio_to_anotacion[f] = yields[n].numero_anotacion

\* an assembly stopped at an introduction of a folio whose first introduction gave nothing
C29_Witness ==
  /\ pc = "oficina"
  /\ \E n \in 1..Len(yields), q \in 1..Len(yields) :
       /\ yields[n].property_name = ""
       /\ yields[q].folio = yields[n].folio
       /\ yields[q].line > yields[n].line
       /\ yields[q].line \in {yields[m].j : m \in 1..Len(yields)}
       /\ folio_to_property[yields[q].folio] = yields[q].property_name

(***************************************************************************)
(* C30: the page's run ends with the results                               *)
(***************************************************************************)
\* C30: a run whose folio list passed the validation and whose certificates gave text ends
\* without an error report: it shows the results, not 'Error al procesar'.
C30_ReachesCompleted ==
  handler_over /\ files_read > 0 /\ ~empty_extraction =>
    /\ pc = "end"
    /\ \A k \in 1..Len(reports) : reports[k].level # "error"
====
